---- MODULE Spec2Model ----
(***************************************************************************)
(* Invoice-validator chat client: the validation report (the component     *)
(* ValidationDetailView with its helpers getNestedValue, getFieldStatus,   *)
(* renderField and the line-item rows) and the ChatWindow / session store  *)
(* state machine.                                                          *)
(*                                                                         *)
(* The repository holds two builds of ValidationDetailView:                *)
(*   "api.js"   : src/api.js, lines 1206-1623                              *)
(*   "part_001" : src/unnamed/part_001                                     *)
(* The operators that differ between them take the build as a parameter.   *)
(***************************************************************************)
EXTENDS Integers, Sequences, FiniteSets, TLC

VARIABLES
    invoiceResultId,   \* prop of ValidationDetailView
    backendPayload,    \* what fetchInvoiceResultDetails resolves with for that id
    view,              \* state of ValidationDetailView: validationData, isLoading, error
    viewPc,            \* position of the view's loadDetails effect
    openSections,      \* part_001: which collapsible sections of the report are open
    inFlight,          \* the ids whose fetchInvoiceResultDetails call has not settled
    viewLog,           \* counters: ids the view received, fetches issued, sections toggled
    rendered,          \* the last report the view returned, with the inputs it was made from
    mockSessions,      \* the session store (mockSessions), in list order
    app,               \* the parent of ChatWindow: its fetched session list, its pending refreshes
    currentChatSession, \* prop of ChatWindow: a snapshot of a session, or NoSession
    chat,              \* state of ChatWindow
    ops,               \* the asynchronous handlers of ChatWindow that are in flight
    started,           \* how many handlers and sessions were started so far
    history,           \* what happened so far, per session (see Track)
    fetched,           \* a client's hold on the value fetchMockSessions resolved with
    storeCalls,        \* how many calls a client made to the store directly
    uploadModal,       \* UploadModal: its show prop and its state
    onUploadCalls      \* the calls UploadModal made to its onUpload prop, in order

viewVars ==
    <<invoiceResultId, backendPayload, view, viewPc, openSections, inFlight, viewLog, rendered>>

chatVars == <<mockSessions, app, currentChatSession, chat, ops, started, history>>

clientVars == <<fetched, storeCalls, uploadModal, onUploadCalls>>

vars == <<viewVars, chatVars, clientVars>>

(***************************************************************************)
(* JavaScript values.  t is the tag, s the text of a string or the         *)
(* String() form of a number, f the properties of an object, a the         *)
(* elements of an array.                                                   *)
(***************************************************************************)
JsUndefined == [t |-> "undefined", s |-> "", f |-> <<>>, a |-> <<>>]

JsNull == [t |-> "null", s |-> "", f |-> <<>>, a |-> <<>>]

Str(x) == [t |-> "string", s |-> x, f |-> <<>>, a |-> <<>>]

Num(x) == [t |-> "number", s |-> x, f |-> <<>>, a |-> <<>>]

Obj(g) == [t |-> "object", s |-> "", f |-> g, a |-> <<>>]

Arr(q) == [t |-> "array", s |-> "", f |-> <<>>, a |-> q]

\* JavaScript truthiness, as `&&`, `||`, `?:` and `if` test it.
Truthy(v) ==
    CASE v.t = "undefined" -> FALSE
      [] v.t = "null"      -> FALSE
      [] v.t = "string"    -> v.s # ""
      [] v.t = "number"    -> v.s # "0"
      [] OTHER             -> TRUE

Nullish(v) == v.t \in {"undefined", "null"}

\* v[key] on a value that is neither null nor undefined.
Get(v, key) ==
    IF v.t = "object" /\ key \in DOMAIN v.f THEN v.f[key] ELSE JsUndefined

\* v?.key
OptGet(v, key) == IF Nullish(v) THEN JsUndefined ELSE Get(v, key)

\* arr.includes(x) for an array of strings
Includes(arr, x) == \E i \in 1..Len(arr.a) : arr.a[i] = Str(x)

\* String(value) for the scalars of the model
JsString(v) ==
    CASE v.t = "undefined" -> "undefined"
      [] v.t = "null"      -> "null"
      [] v.t = "object"    -> "[object Object]"
      [] v.t = "array"     -> "[array]"
      [] OTHER             -> v.s

(***************************************************************************)
(* The field paths of the model and path.split('.').                       *)
(***************************************************************************)
Builds == {"api.js", "part_001"}

split(path) ==
    CASE path = "invoice_number"        -> <<"invoice_number">>
      [] path = "po_number"             -> <<"po_number">>
      [] path = "supplier_details.name" -> <<"supplier_details", "name">>
      [] OTHER                          -> <<path>>

\* The rows of the two field lists that the model keeps, in source order.
invoiceFieldsToDisplay ==
    << [path |-> "invoice_number",        label |-> "Invoice Number"],
       [path |-> "supplier_details.name", label |-> "Supplier Name"] >>

poFieldsToDisplay ==
    << [path |-> "po_number",             label |-> "PO Number"],
       [path |-> "invoice_number",        label |-> "Invoice Number (from PO)"],
       [path |-> "supplier_details.name", label |-> "Supplier Name"] >>

FieldUniverse == <<"invoice_number", "supplier_details.name", "po_number">>

(***************************************************************************)
(* Field Resolver: path.split('.').reduce((acc, part) => acc && acc[part], *)
(* obj)                                                                    *)
(***************************************************************************)
RECURSIVE reduceParts(_, _, _)
reduceParts(acc, parts, i) ==
    IF i > Len(parts) THEN acc
    ELSE reduceParts(IF Truthy(acc) THEN Get(acc, parts[i]) ELSE acc, parts, i + 1)

getNestedValue(obj, path) == reduceParts(obj, split(path), 1)

(***************************************************************************)
(* Field Status Evaluator                                                  *)
(***************************************************************************)
MissingInInvoiceMessage == "Missing in invoice (as per PO comparison)."

MissingInPoMessage == "Missing in PO."

ValidMessage(build) == IF build = "api.js" THEN "Present and valid" ELSE ""

\* getFieldStatus without its missing_in_invoice test
getFieldStatus_NoMissingTest(build, fieldPath, issues, po_comparison_results) ==
    IF Truthy(issues) /\ Truthy(Get(issues, fieldPath))
    THEN [isValid |-> FALSE, message |-> Get(issues, fieldPath).s]
    ELSE [isValid |-> TRUE, message |-> ValidMessage(build)]

getFieldStatus(build, fieldPath, issues, po_comparison_results) ==
    IF Truthy(issues) /\ Truthy(Get(issues, fieldPath))
    THEN [isValid |-> FALSE, message |-> Get(issues, fieldPath).s]
    ELSE IF /\ Truthy(OptGet(po_comparison_results, "missing_in_invoice"))
            /\ Includes(Get(po_comparison_results, "missing_in_invoice"), fieldPath)
         THEN [isValid |-> FALSE, message |-> MissingInInvoiceMessage]
         ELSE [isValid |-> TRUE, message |-> ValidMessage(build)]

Placeholder(build) == IF build = "api.js" THEN "Not Extracted / N/A" ELSE "N/A"

\* The value cell of a field row.
valueCell(build, value) ==
    IF value.t = "null" \/ value = Str("")
    THEN [kind |-> "placeholder", text |-> Placeholder(build)]
    ELSE IF value.t \in {"object", "array"}
         THEN [kind |-> "json", text |-> ""]
         ELSE [kind |-> "text", text |-> JsString(value)]

\* renderField that folds a PO mismatch into the row's status instead of annotating the row
renderField_MergedStatus(build, fieldPath, extractedData, issues, label, isPoField, po_comparison_results) ==
    LET value  == getNestedValue(extractedData, fieldPath)
        status == getFieldStatus(build, fieldPath, issues, po_comparison_results)
        mm     == OptGet(po_comparison_results, "mismatched_fields")
        poMismatch ==
            IF ~isPoField /\ Truthy(mm) /\ Truthy(Get(mm, fieldPath))
            THEN Get(mm, fieldPath)
            ELSE JsNull
    IN  [ key        |-> fieldPath,
          label      |-> label,
          value      |-> value,
          cell       |-> valueCell(build, value),
          isValid    |-> status.isValid /\ ~Truthy(poMismatch),
          message    |-> IF Truthy(poMismatch) THEN "PO Mismatch" ELSE status.message,
          isPoField  |-> isPoField,
          poMismatch |-> JsNull ]

renderField(build, fieldPath, extractedData, issues, label, isPoField, po_comparison_results) ==
    LET value  == getNestedValue(extractedData, fieldPath)
        status == getFieldStatus(build, fieldPath, issues, po_comparison_results)
        mm     == OptGet(po_comparison_results, "mismatched_fields")
        poMismatch ==
            IF ~isPoField /\ Truthy(mm) /\ Truthy(Get(mm, fieldPath))
            THEN Get(mm, fieldPath)
            ELSE JsNull
    IN  [ key        |-> fieldPath,
          label      |-> label,
          value      |-> value,
          cell       |-> valueCell(build, value),
          isValid    |-> status.isValid,
          \* the text next to the icon: part_001 shows 'Valid' or `message || 'Issue Detected'`,
          \* api.js shows the message of an invalid row only
          message    |-> status.message,
          isPoField  |-> isPoField,
          \* `poMismatch && !isPoField`
          poMismatch |-> IF Truthy(poMismatch) /\ ~isPoField THEN poMismatch ELSE JsNull ]

\* The issues object the PO rows are rendered with:
\* po_comparison_results?.missing_in_po?.reduce(...) || {}
\* poIssuesFor that never reports a path
poIssuesFor_Empty(path, po_comparison_results) == Obj(<<>>)

poIssuesFor(path, po_comparison_results) ==
    LET mip == OptGet(po_comparison_results, "missing_in_po")
    IN  IF Nullish(mip) THEN Obj(<<>>)
        ELSE IF Includes(mip, path)
             THEN Obj(path :> Str(MissingInPoMessage))
             ELSE Obj(<<>>)

invoiceFieldRows(build, data) ==
    [ i \in 1..Len(invoiceFieldsToDisplay) |->
        renderField(build, invoiceFieldsToDisplay[i].path,
                    Get(data, "extracted_invoice_data"),
                    Get(data, "invoice_validation_issues"),
                    invoiceFieldsToDisplay[i].label, FALSE,
                    Get(data, "po_comparison_results")) ]

\* <<>> stands for the 'No Purchase Order data available for comparison.' marker.
poFieldRows(build, data) ==
    IF Truthy(Get(data, "extracted_po_data"))
    THEN [ i \in 1..Len(poFieldsToDisplay) |->
             renderField(build, poFieldsToDisplay[i].path,
                         Get(data, "extracted_po_data"),
                         poIssuesFor(poFieldsToDisplay[i].path, Get(data, "po_comparison_results")),
                         poFieldsToDisplay[i].label, TRUE,
                         Get(data, "po_comparison_results")) ]
    ELSE <<>>

(***************************************************************************)
(* Line-Item Reconciler: renderLineItemRow (part_001) and renderLineItem   *)
(* (api.js).                                                               *)
(***************************************************************************)
\* String(i) of an array index
NumStr(i) ==
    CASE i = 0 -> "0" [] i = 1 -> "1" [] i = 2 -> "2" [] i = 3 -> "3" [] OTHER -> "4"

commonLineItemKeys ==
    <<"description", "quantity", "unit_price", "total_line_amount",
      "item_tax_rate", "item_amount_of_tax_charged">>

lineItemKeysToDisplay ==
    <<"description", "quantity", "unit_price", "total_line_amount",
      "item_tax_rate", "item_amount_of_tax_charged", "hsn_sac_code", "quantity_code">>

\* findItemMismatch that matches on the entry's position in line_item_details instead of its item_index
findItemMismatch_ByPosition(po_comparison_results, index) ==
    LET details == OptGet(OptGet(po_comparison_results, "mismatched_fields"), "line_item_details")
    IN  IF Nullish(details) THEN JsUndefined
        ELSE IF index + 1 <= Len(details.a)
                /\ Get(details.a[index + 1], "type") = Str("item_value_mismatch")
             THEN details.a[index + 1]
             ELSE JsUndefined

\* po_comparison_results?.mismatched_fields?.line_item_details?.find(
\*     m => m.type === 'item_value_mismatch' && m.item_index === index)
findItemMismatch(po_comparison_results, index) ==
    LET details == OptGet(OptGet(po_comparison_results, "mismatched_fields"), "line_item_details")
        hit(m)  == Get(m, "type") = Str("item_value_mismatch")
                   /\ Get(m, "item_index") = Num(NumStr(index))
    IN  IF Nullish(details) THEN JsUndefined
        ELSE IF \E i \in 1..Len(details.a) : hit(details.a[i])
             THEN details.a[CHOOSE i \in 1..Len(details.a) :
                              hit(details.a[i]) /\ \A j \in 1..(i - 1) : ~hit(details.a[j])]
             ELSE JsUndefined

\* The cell of one key of a line item.  both is TRUE when the cell shows the invoice and
\* the PO value of a mismatch.
lineItemCell(key, flagged, both, text) ==
    [key |-> key, flagged |-> flagged, both |-> both, text |-> text]

\* part_001: one table row with the six columns of commonLineItemKeys
renderLineItemRow(item, index, type, po_comparison_results) ==
    LET detailedLineItemMismatches == findItemMismatch(po_comparison_results, index)
        itemOverallValid    == ~Truthy(detailedLineItemMismatches)
        itemMismatchDetails == IF Truthy(detailedLineItemMismatches)
                               THEN Get(detailedLineItemMismatches, "mismatches")
                               ELSE Obj(<<>>)
        \* item[key] and itemMismatchDetails[key] raise a TypeError on null and undefined
        threw == Nullish(item) \/ Nullish(itemMismatchDetails)
        cell(key) ==
            LET value        == Get(item, key)
                isMismatched == Get(itemMismatchDetails, key)
            IN  IF Truthy(isMismatched)
                THEN lineItemCell(key, TRUE, TRUE, "")
                ELSE lineItemCell(key, FALSE, FALSE,
                                  IF Nullish(value) \/ value = Str("") THEN "N/A"
                                  ELSE JsString(value))
    IN  [ threw            |-> threw,
          type             |-> type,
          index            |-> index,
          itemOverallValid |-> itemOverallValid,
          cells            |-> IF threw THEN <<>>
                               ELSE [k \in 1..Len(commonLineItemKeys) |-> cell(commonLineItemKeys[k])] ]

\* api.js: one card with a line per key of lineItemKeysToDisplay that the item defines
renderLineItem(item, index, type, po_comparison_results) ==
    LET detailedLineItemMismatches == findItemMismatch(po_comparison_results, index)
        itemOverallValid    == ~Truthy(detailedLineItemMismatches)
        itemMismatchDetails == IF Truthy(detailedLineItemMismatches)
                               THEN Get(detailedLineItemMismatches, "mismatches")
                               ELSE Obj(<<>>)
        \* `if (value === undefined) return null`
        shownKeys == SelectSeq(lineItemKeysToDisplay, LAMBDA key : Get(item, key) # JsUndefined)
        \* item[key] raises on a null item, itemMismatchDetails[key] on a missing map
        threw == Nullish(item) \/ (Nullish(itemMismatchDetails) /\ Len(shownKeys) > 0)
        cell(key) ==
            LET value        == Get(item, key)
                isMismatched == Get(itemMismatchDetails, key)
                displayValue == IF value.t \in {"object", "array"} THEN "[json]" ELSE JsString(value)
            IN  IF Truthy(isMismatched)
                THEN lineItemCell(key, TRUE, TRUE, "")
                ELSE lineItemCell(key, FALSE, FALSE,
                                  IF displayValue = "" THEN "N/A" ELSE displayValue)
    IN  [ threw            |-> threw,
          type             |-> type,
          index            |-> index,
          itemOverallValid |-> itemOverallValid,
          cells            |-> IF threw THEN <<>>
                               ELSE [k \in 1..Len(shownKeys) |-> cell(shownKeys[k])] ]

lineItemRow(build, item, index, type, po_comparison_results) ==
    IF build = "api.js"
    THEN renderLineItem(item, index, type, po_comparison_results)
    ELSE renderLineItemRow(item, index, type, po_comparison_results)

\* The rows of a line-item section; <<>> stands for the 'No line items extracted' notice.
lineItemRows(build, doc, type, po_comparison_results) ==
    LET items == OptGet(doc, "items")
    IN  IF Truthy(items) /\ Len(items.a) > 0
        THEN [i \in 1..Len(items.a) |->
                lineItemRow(build, items.a[i], i - 1, type, po_comparison_results)]
        ELSE <<>>

invoiceLineItemRows(build, data) ==
    lineItemRows(build, Get(data, "extracted_invoice_data"), "invoice",
                 Get(data, "po_comparison_results"))

\* The PO line items are inside the PO section, which needs extracted_po_data.
poLineItemRows(build, data) ==
    IF Truthy(Get(data, "extracted_po_data"))
    THEN lineItemRows(build, Get(data, "extracted_po_data"), "po",
                      Get(data, "po_comparison_results"))
    ELSE <<>>

(***************************************************************************)
(* Labels: field.replace(/_/g, ' ').replace(/\b\w/g, l => l.toUpperCase()) *)
(* and JSON.stringify.  A string is handled as the sequence of its         *)
(* characters.                                                             *)
(***************************************************************************)
\* The characters of the keys and issue names that occur in the payloads of the model
chars(s) ==
    CASE s = "invoice_number" ->
             <<"i", "n", "v", "o", "i", "c", "e", "_", "n", "u", "m", "b", "e", "r">>
      [] s = "po_number" ->
             <<"p", "o", "_", "n", "u", "m", "b", "e", "r">>
      [] s = "supplier_details.name" ->
             <<"s", "u", "p", "p", "l", "i", "e", "r", "_", "d", "e", "t", "a", "i", "l", "s", ".", "n", "a", "m", "e">>
      [] s = "total_value_of_supply" ->
             <<"t", "o", "t", "a", "l", "_", "v", "a", "l", "u", "e", "_", "o", "f", "_", "s", "u", "p", "p", "l", "y">>
      [] s = "quantity" ->
             <<"q", "u", "a", "n", "t", "i", "t", "y">>
      [] s = "unit_price" ->
             <<"u", "n", "i", "t", "_", "p", "r", "i", "c", "e">>
      [] s = "total_line_amount" ->
             <<"t", "o", "t", "a", "l", "_", "l", "i", "n", "e", "_", "a", "m", "o", "u", "n", "t">>
      [] s = "hsn_sac_code" ->
             <<"h", "s", "n", "_", "s", "a", "c", "_", "c", "o", "d", "e">>
      [] s = "value_mismatch" ->
             <<"v", "a", "l", "u", "e", "_", "m", "i", "s", "m", "a", "t", "c", "h">>
      [] s = "missing_in_invoice" ->
             <<"m", "i", "s", "s", "i", "n", "g", "_", "i", "n", "_", "i", "n", "v", "o", "i", "c", "e">>
      [] s = "Total Value Of Supply" ->
             <<"T", "o", "t", "a", "l", " ", "V", "a", "l", "u", "e", " ", "O", "f", " ", "S", "u", "p", "p", "l", "y">>
      [] OTHER -> <<>>

LowerCase == <<"a", "b", "c", "d", "e", "f", "g", "h", "i", "j", "k", "l", "m",
               "n", "o", "p", "q", "r", "s", "t", "u", "v", "w", "x", "y", "z">>

UpperCase == <<"A", "B", "C", "D", "E", "F", "G", "H", "I", "J", "K", "L", "M",
               "N", "O", "P", "Q", "R", "S", "T", "U", "V", "W", "X", "Y", "Z">>

Digits == {"0", "1", "2", "3", "4", "5", "6", "7", "8", "9"}

\* \w of a regular expression
isWordChar(c) ==
    \/ \E i \in DOMAIN LowerCase : c = LowerCase[i] \/ c = UpperCase[i]
    \/ c \in Digits
    \/ c = "_"

toUpperCase(c) ==
    IF \E i \in DOMAIN LowerCase : c = LowerCase[i]
    THEN UpperCase[CHOOSE i \in DOMAIN LowerCase : c = LowerCase[i]]
    ELSE c

\* .replace(/_/g, ' ')
replaceUnderscores(cs) == [i \in DOMAIN cs |-> IF cs[i] = "_" THEN " " ELSE cs[i]]

\* .replace(/\b\w/g, l => l.toUpperCase()): a word character at a word boundary
capitalizeWords(cs) ==
    [i \in DOMAIN cs |->
        IF isWordChar(cs[i]) /\ (i = 1 \/ ~isWordChar(cs[i - 1]))
        THEN toUpperCase(cs[i]) ELSE cs[i]]

fieldLabel(field) == capitalizeWords(replaceUnderscores(chars(field)))

\* JSON.stringify(value) as React shows it; undefined gives no text at all
JsonStringify(v) ==
    CASE v.t = "undefined" -> ""
      [] v.t = "null"      -> "null"
      [] v.t = "string"    -> "\"" \o v.s \o "\""
      [] v.t = "number"    -> v.s
      [] OTHER             -> "[json]"

(***************************************************************************)
(* The discrepancy summary ('PO Comparison Discrepancies').  Both builds    *)
(* produce the same notices.  Object.entries gives the keys of an object   *)
(* in insertion order, which the model does not keep: the notices of the   *)
(* field keys are a set.                                                   *)
(***************************************************************************)
\* the number a Num of the model stands for, -1 for anything else
NumVal(v) ==
    IF v.t = "number" /\ \E i \in 0..4 : NumStr(i) = v.s
    THEN CHOOSE i \in 0..4 : NumStr(i) = v.s
    ELSE -1

\* {text} as a React child: null and undefined show nothing, an object is an error
childText(v) == IF Nullish(v) THEN "" ELSE JsString(v)

\* fieldNotice that labels the entry with the key as it is
fieldNotice_RawKey(field, values) ==
    [ threw   |-> Nullish(values),
      field   |-> field,
      label   |-> chars(field),
      invoice |-> JsonStringify(OptGet(values, "invoice_value")),
      po      |-> JsonStringify(OptGet(values, "po_value")) ]

\* One key of mismatched_fields other than line_item_details
fieldNotice(field, values) ==
    [ threw   |-> Nullish(values),
      field   |-> field,
      label   |-> fieldLabel(field),
      invoice |-> JsonStringify(OptGet(values, "invoice_value")),
      po      |-> JsonStringify(OptGet(values, "po_value")) ]

\* One sub-field of an item_value_mismatch entry
subFieldNotice(subField, subValues) ==
    [ threw   |-> Nullish(subValues),
      label   |-> fieldLabel(subField),
      invoice |-> JsonStringify(OptGet(subValues, "invoice_value")),
      po      |-> JsonStringify(OptGet(subValues, "po_value")),
      issue   |-> IF Truthy(OptGet(subValues, "issue"))
                  THEN replaceUnderscores(chars(OptGet(subValues, "issue").s))
                  ELSE <<>> ]

\* lineItemNotice that shows a fixed text for a count_mismatch entry
lineItemNotice_FixedText(mismatch_detail) ==
    [ threw |-> Nullish(mismatch_detail),
      kind  |-> IF OptGet(mismatch_detail, "type").t = "string"
                THEN OptGet(mismatch_detail, "type").s ELSE "",
      text  |-> "Item count mismatch",
      item  |-> 0,
      json  |-> "",
      subs  |-> {} ]

\* One entry of line_item_details: one list item, whatever its type
lineItemNotice(mismatch_detail) ==
    LET type       == OptGet(mismatch_detail, "type")
        mismatches == OptGet(mismatch_detail, "mismatches")
        message    == OptGet(mismatch_detail, "message")
        isCount    == type = Str("count_mismatch")
        isValue    == type = Str("item_value_mismatch")
        isExtra    == type \in {Str("extra_invoice_item"), Str("extra_po_item")}
        subs       == IF isValue /\ ~Nullish(mismatches)
                      THEN {subFieldNotice(k, mismatches.f[k]) : k \in DOMAIN mismatches.f}
                      ELSE {}
    IN  [ threw |-> \/ Nullish(mismatch_detail)
                    \/ isCount /\ message.t \in {"object"}
                    \/ isValue /\ Nullish(mismatches)
                    \/ \E n \in subs : n.threw,
          kind  |-> IF isCount \/ isValue \/ isExtra THEN type.s ELSE "",
          text  |-> IF isCount THEN childText(message) ELSE "",
          item  |-> IF isValue \/ isExtra
                    THEN NumVal(OptGet(mismatch_detail, "item_index")) + 1 ELSE 0,
          json  |-> IF type = Str("extra_invoice_item")
                    THEN JsonStringify(OptGet(mismatch_detail, "invoice_item"))
                    ELSE IF type = Str("extra_po_item")
                    THEN JsonStringify(OptGet(mismatch_detail, "po_item"))
                    ELSE "",
          subs  |-> subs ]

\* field.replace(...) of an element of missing_in_invoice / missing_in_po
missingLabels(list) ==
    [i \in 1..Len(list.a) |->
        [ threw |-> list.a[i].t # "string",
          label |-> IF list.a[i].t = "string" THEN fieldLabel(list.a[i].s) ELSE <<>> ]]

discrepancySummary(po_comparison_results) ==
    LET mismatched_fields  == OptGet(po_comparison_results, "mismatched_fields")
        missing_in_invoice == OptGet(po_comparison_results, "missing_in_invoice")
        missing_in_po      == OptGet(po_comparison_results, "missing_in_po")
        hasMismatched == Truthy(mismatched_fields) /\ DOMAIN mismatched_fields.f # {}
        hasMissingInv == Truthy(missing_in_invoice) /\ Len(missing_in_invoice.a) > 0
        hasMissingPo  == Truthy(missing_in_po) /\ Len(missing_in_po.a) > 0
        fields == IF hasMismatched
                  THEN {fieldNotice(k, mismatched_fields.f[k]) :
                            k \in DOMAIN mismatched_fields.f \ {"line_item_details"}}
                  ELSE {}
        values == Get(mismatched_fields, "line_item_details")
        \* (values || []).map(...)
        lineItems == IF hasMismatched /\ "line_item_details" \in DOMAIN mismatched_fields.f
                        /\ Truthy(values)
                     THEN [i \in 1..Len(values.a) |-> lineItemNotice(values.a[i])]
                     ELSE <<>>
        missInv == IF hasMissingInv THEN missingLabels(missing_in_invoice) ELSE <<>>
        missPo  == IF hasMissingPo THEN missingLabels(missing_in_po) ELSE <<>>
    IN  [ shown            |-> hasMismatched \/ hasMissingInv \/ hasMissingPo,
          threw            |-> \/ \E n \in fields : n.threw
                               \/ hasMismatched /\ "line_item_details" \in DOMAIN mismatched_fields.f
                                    /\ Truthy(values) /\ values.t # "array"
                               \/ \E i \in DOMAIN lineItems : lineItems[i].threw
                               \/ \E i \in DOMAIN missInv : missInv[i].threw
                               \/ \E i \in DOMAIN missPo : missPo[i].threw,
          fieldNotices     |-> fields,
          lineItemNotices  |-> lineItems,
          missingInInvoice |-> missInv,
          missingInPo      |-> missPo ]

(***************************************************************************)
(* The report: what the component returns for a payload.  An exception     *)
(* raised while a row or a notice is built leaves the component without    *)
(* output: no row of the report is produced.                               *)
(***************************************************************************)
\* poSection that renders the PO rows whether or not there is PO data
poSection_AlwaysRows(build, data, open) ==
    [ marker    |-> FALSE,
      fields    |-> [ i \in 1..Len(poFieldsToDisplay) |->
                        renderField(build, poFieldsToDisplay[i].path,
                                    Get(data, "extracted_po_data"), Obj(<<>>),
                                    poFieldsToDisplay[i].label, TRUE,
                                    Get(data, "po_comparison_results")) ],
      lineItems |-> <<>>,
      noItems   |-> TRUE ]

\* The 'PO Comparison Results' part of the report.  api.js has no collapsible sections.
poSection(build, data, open) ==
    LET hasPo == Truthy(Get(data, "extracted_po_data"))
        isOpen(sectionName) == build = "api.js" \/ open[sectionName]
    IN  [ \* 'No Purchase Order data available for comparison.'
          marker    |-> ~hasPo,
          fields    |-> IF isOpen("poData") THEN poFieldRows(build, data) ELSE <<>>,
          lineItems |-> IF isOpen("poLineItems") THEN poLineItemRows(build, data) ELSE <<>>,
          \* 'No line items extracted from the PO.'
          noItems   |-> hasPo /\ poLineItemRows(build, data) = <<>> ]

\* The 'Invoice Line Items' part of the report
invoiceLineItemsSection(build, data, open) ==
    [ lineItems |-> IF build = "api.js" \/ open["invoiceLineItems"]
                    THEN invoiceLineItemRows(build, data) ELSE <<>>,
      \* 'No line items extracted from the invoice.'
      noItems   |-> invoiceLineItemRows(build, data) = <<>> ]

\* The report from its parts: once a part has raised, nothing of the report is left.
reportParts(aborted, discrepancies, invoiceItems, po, invoiceFields) ==
    [ aborted          |-> aborted,
      invoiceFields    |-> IF aborted THEN <<>> ELSE invoiceFields,
      noPoMarker       |-> ~aborted /\ po.marker,
      poFields         |-> IF aborted THEN <<>> ELSE po.fields,
      invoiceLineItems |-> IF aborted THEN <<>> ELSE invoiceItems.lineItems,
      noInvoiceItems   |-> ~aborted /\ invoiceItems.noItems,
      poLineItems      |-> IF aborted THEN <<>> ELSE po.lineItems,
      noPoItems        |-> ~aborted /\ po.noItems,
      discrepancies    |-> IF aborted THEN discrepancySummary(JsNull) ELSE discrepancies ]

\* The rendering is aborted when the discrepancy summary or a line-item row raises.
reportWith(discrepancies, invoiceItems, po, invoiceFields) ==
    reportParts(\/ discrepancies.threw
                \/ \E i \in DOMAIN invoiceItems.lineItems : invoiceItems.lineItems[i].threw
                \/ \E i \in DOMAIN po.lineItems : po.lineItems[i].threw,
                discrepancies, invoiceItems, po, invoiceFields)

report(build, data, open) ==
    reportWith(discrepancySummary(Get(data, "po_comparison_results")),
               invoiceLineItemsSection(build, data, open),
               poSection(build, data, open),
               IF build = "api.js" \/ open["invoiceData"]
               THEN invoiceFieldRows(build, data) ELSE <<>>)

(***************************************************************************)
(* The payloads the backend may hold for a result id.  A payload is built  *)
(* from a set of entries: an issue for a path, or a path listed in         *)
(* missing_in_invoice, missing_in_po or mismatched_fields.                 *)
(***************************************************************************)
MaxEntries == 2

\* Reason strings of invoice_validation_issues.
Messages == {"", "Missing required field"}

PoKinds == {"missing_in_invoice", "missing_in_po", "mismatched_fields"}

UniverseSet == {FieldUniverse[i] : i \in 1..Len(FieldUniverse)}

AllEntries ==
    {[k |-> "issue", p |-> p, m |-> m] : p \in UniverseSet, m \in Messages}
    \cup {[k |-> k, p |-> p, m |-> ""] : k \in PoKinds, p \in UniverseSet}

EntrySets ==
    {E \in SUBSET AllEntries :
        /\ Cardinality(E) <= MaxEntries
        /\ \A e1, e2 \in E : (e1.k = "issue" /\ e2.k = "issue" /\ e1.p = e2.p) => e1 = e2}

PathsOf(E, kind) == {e.p : e \in {x \in E : x.k = kind}}

\* The paths of S as an array, in the order of FieldUniverse.
PathArray(S) ==
    LET kept == SelectSeq(FieldUniverse, LAMBDA p : p \in S)
    IN  Arr([i \in 1..Len(kept) |-> Str(kept[i])])

MismatchPair == Obj([invoice_value |-> Num("1500"), po_value |-> Num("1200")])

IssuesOf(E) ==
    Obj([p \in PathsOf(E, "issue") |->
           Str((CHOOSE e \in E : e.k = "issue" /\ e.p = p).m)])

PoComparisonOf(E) ==
    Obj([ overall_match      |-> JsNull,
          mismatched_fields  |-> Obj([p \in PathsOf(E, "mismatched_fields") |-> MismatchPair]),
          missing_in_invoice |-> PathArray(PathsOf(E, "missing_in_invoice")),
          missing_in_po      |-> PathArray(PathsOf(E, "missing_in_po")) ])

\* The po_comparison_results of a payload produced without a PO: no lists at all.
BarePoComparison == Obj([overall_match |-> JsNull, message |-> Str("PO comparison skipped, no PO provided.")])

\* An extracted document with the two keys the model reads; JsUndefined leaves the key out.
MkDoc(k1, v1, k2, v2) ==
    LET val(k) == IF k = k1 THEN v1 ELSE v2
    IN  Obj([k \in {x \in {k1, k2} : val(x) # JsUndefined} |-> val(k)])

LeafValues == {JsUndefined, JsNull, Str(""), Str("INV-1"), Num("0")}

InnerValues ==
    {JsUndefined, JsNull, Str(""), Num("0"),
     Obj(<<>>), Obj([name |-> Str("")]), Obj([name |-> JsNull])}

InvoiceDocs ==
    {JsNull, JsUndefined}
    \cup {MkDoc("invoice_number", v, "supplier_details", Obj([name |-> Str("Acme")])) : v \in LeafValues}
    \cup {MkDoc("invoice_number", Str("INV-1"), "supplier_details", w) : w \in InnerValues}

PoDocs ==
    { JsNull,
      Obj([po_number |-> Str("PO-7"), invoice_number |-> Str("INV-1"),
           supplier_details |-> Obj([name |-> Str("Acme")])]),
      Obj([po_number |-> Str(""), supplier_details |-> JsNull]) }

Summary ==
    Obj([ invoice_number |-> Str("INV-1"),
          selected_checklist_option |-> Str("option_1_without_igst"),
          overall_invoice_validation_status |-> Str("Accepted"),
          overall_po_comparison_status |-> Str("Accepted"),
          summary_message |-> Str("ok") ])

MkPayload(issues, pcr, invDoc, poDoc) ==
    Obj([ summary                   |-> Summary,
          extracted_invoice_data    |-> invDoc,
          invoice_validation_issues |-> issues,
          extracted_po_data         |-> poDoc,
          po_comparison_results     |-> pcr ])

\* The backend holds a payload with field entries, or one produced without a PO.
FieldPayloadStored ==
    \/ \E E \in EntrySets, d \in InvoiceDocs, q \in PoDocs :
          backendPayload = MkPayload(IssuesOf(E), PoComparisonOf(E), d, q)
    \/ \E E \in {X \in EntrySets : \A e \in X : e.k = "issue"},
           pcr \in {JsNull, BarePoComparison}, d \in InvoiceDocs :
          backendPayload =
              MkPayload(IF PathsOf(E, "issue") = {} THEN JsUndefined ELSE IssuesOf(E),
                        pcr, d, JsNull)

(***************************************************************************)
(* Payloads with line items.  line_item_details holds at most one          *)
(* item_value_mismatch entry per index, and only for indices that both     *)
(* documents have (section 3 of the specification).                        *)
(***************************************************************************)
MaxItems == 2

ItemA ==
    Obj([ description |-> Str("Widget"), quantity |-> Num("2"), unit_price |-> Num("10"),
          total_line_amount |-> Num("20"), hsn_sac_code |-> Str("9983") ])

ItemB == Obj([description |-> Str("Bolt"), quantity |-> JsNull, unit_price |-> Str("")])

ItemP ==
    Obj([ description |-> Str("Widget"), quantity |-> Num("3"), unit_price |-> Num("10"),
          total_line_amount |-> Num("30"), hsn_sac_code |-> Str("9984") ])

InvoiceItemSamples == {ItemA, ItemB}

PoItemSamples == {ItemA, ItemP}

ValuePair(iv, pv, issue) == Obj([invoice_value |-> iv, po_value |-> pv, issue |-> Str(issue)])

MismatchMaps ==
    { Obj([quantity |-> ValuePair(Num("2"), Num("3"), "value_mismatch")]),
      Obj([ total_line_amount |-> ValuePair(JsNull, Num("30"), "missing_in_invoice"),
            unit_price        |-> ValuePair(Num("10"), Num("12"), "value_mismatch") ]),
      Obj([hsn_sac_code |-> ValuePair(Str("9983"), Str("9984"), "value_mismatch")]) }

ItemSeqs(S) == UNION {[1..n -> S] : n \in 0..MaxItems}

Min(x, y) == IF x <= y THEN x ELSE y

ValueMismatchEntry(i, map) ==
    Obj([type |-> Str("item_value_mismatch"), item_index |-> Num(NumStr(i)), mismatches |-> map])

CountMismatchEntry == Obj([type |-> Str("count_mismatch"), message |-> Str("Invoice has 3 items, PO has 2")])

ExtraInvoiceEntry(i, item) ==
    Obj([type |-> Str("extra_invoice_item"), item_index |-> Num(NumStr(i)), invoice_item |-> item])

\* The item_value_mismatch entries of the choice c, for the indices i..n-1
RECURSIVE ValueEntries(_, _, _)
ValueEntries(c, i, n) ==
    IF i >= n THEN <<>>
    ELSE (IF c[i] = JsUndefined THEN <<>> ELSE <<ValueMismatchEntry(i, c[i])>>)
         \o ValueEntries(c, i + 1, n)

\* extra_invoice_item entries for the invoice items i..n-1 (0-based) that the PO lacks
RECURSIVE ExtraEntries(_, _, _)
ExtraEntries(inv, i, n) ==
    IF i >= n THEN <<>>
    ELSE <<ExtraInvoiceEntry(i, inv[i + 1])>> \o ExtraEntries(inv, i + 1, n)

LineItemDetails(inv, po, c, counted) ==
    (IF counted THEN <<CountMismatchEntry>> ELSE <<>>)
    \o ValueEntries(c, 0, Min(Len(inv), Len(po)))
    \o (IF counted THEN ExtraEntries(inv, Min(Len(inv), Len(po)), Len(inv)) ELSE <<>>)

ItemPayload(inv, po, details) ==
    MkPayload(
        Obj(<<>>),
        Obj([ overall_match      |-> JsNull,
              mismatched_fields  |-> Obj([line_item_details |-> Arr(details)]),
              missing_in_invoice |-> Arr(<<>>),
              missing_in_po      |-> Arr(<<>>) ]),
        Obj([ invoice_number |-> Str("INV-1"),
              supplier_details |-> Obj([name |-> Str("Acme")]),
              items |-> Arr(inv) ]),
        Obj([ po_number |-> Str("PO-7"), items |-> Arr(po) ]))

\* The backend holds a payload with line items.
ItemPayloadStored ==
    \E inv \in ItemSeqs(InvoiceItemSamples), po \in ItemSeqs(PoItemSamples) :
        \E c \in [0..(Min(Len(inv), Len(po)) - 1) -> MismatchMaps \cup {JsUndefined}],
           counted \in BOOLEAN :
            backendPayload = ItemPayload(inv, po, LineItemDetails(inv, po, c, counted))

(***************************************************************************)
(* Payloads for the discrepancy summary: a key of mismatched_fields that   *)
(* is no displayed field, with or without line_item_details next to it,    *)
(* and the malformed payloads: an item_value_mismatch entry without its    *)
(* mismatches map, a null sub-field pair, a null value under a key of      *)
(* mismatched_fields, and a null line item.                                *)
(***************************************************************************)
PayloadWith(mismatched_fields, invoiceItems, poDoc) ==
    MkPayload(
        Obj(<<>>),
        Obj([ overall_match      |-> JsNull,
              mismatched_fields  |-> mismatched_fields,
              missing_in_invoice |-> Arr(<<>>),
              missing_in_po      |-> Arr(<<>>) ]),
        Obj([ invoice_number |-> Str("INV-1"),
              supplier_details |-> Obj([name |-> Str("Acme")]),
              items |-> invoiceItems ]),
        poDoc)

PairValues == {Num("1500"), Num("1200"), Str("INV-1"), JsNull}

SamplePoDoc == Obj([po_number |-> Str("PO-7"), items |-> Arr(<<ItemP>>)])

\* The backend holds a payload with a mismatch on total_value_of_supply.
SummaryPayloadStored ==
    \E iv, pv \in PairValues,
       details \in {JsUndefined, Arr(<<>>), Arr(<<CountMismatchEntry>>)},
       poDoc \in {JsNull, SamplePoDoc} :
        backendPayload =
            PayloadWith(
                Obj(IF details = JsUndefined
                    THEN [k \in {"total_value_of_supply"} |->
                             Obj([invoice_value |-> iv, po_value |-> pv])]
                    ELSE [k \in {"total_value_of_supply", "line_item_details"} |->
                             IF k = "line_item_details" THEN details
                             ELSE Obj([invoice_value |-> iv, po_value |-> pv])]),
                Arr(<<ItemA, ItemB>>), poDoc)

MalformedPayloads ==
    { PayloadWith(
          Obj([line_item_details |->
                  Arr(<<Obj([type |-> Str("item_value_mismatch"), item_index |-> Num("0")])>>)]),
          Arr(<<ItemA, ItemB>>), SamplePoDoc),
      PayloadWith(
          Obj([line_item_details |->
                  Arr(<<Obj([ type |-> Str("item_value_mismatch"), item_index |-> Num("1"),
                              mismatches |-> Obj([quantity |-> JsNull]) ])>>)]),
          Arr(<<ItemA, ItemB>>), SamplePoDoc),
      PayloadWith(Obj([total_value_of_supply |-> JsNull]), Arr(<<ItemA, ItemB>>), SamplePoDoc),
      PayloadWith(Obj(<<>>), Arr(<<ItemA, JsNull>>), SamplePoDoc),
      PayloadWith(Obj(<<>>), Arr(<<ItemA>>),
                  Obj([po_number |-> Str("PO-7"), items |-> Arr(<<JsNull, ItemP>>)])) }

\* The backend holds a malformed payload.
MalformedPayloadStored == backendPayload \in MalformedPayloads

\* The payloads the life of the view is followed with
ViewPayloads ==
    { PayloadWith(Obj([total_value_of_supply |-> MismatchPair, line_item_details |-> details]),
                  invoiceItems, poDoc) :
          details \in {Arr(<<>>), Arr(<<CountMismatchEntry>>)},
          invoiceItems \in {Arr(<<>>), Arr(<<ItemA, ItemB>>)},
          poDoc \in {JsNull, SamplePoDoc} }

(***************************************************************************)
(* ValidationDetailView: the loadDetails effect                            *)
(***************************************************************************)
NoIdError == "Invoice Result ID not provided to ValidationDetailView."

FetchError == "Failed to load validation details."

MaxDetailOpens == 2

MaxToggles == 1

\* The ids the 'View Details' buttons of the transcript carry
ResultIds == {Str("result-1"), Str("result-2")}

\* What the backend holds for result-2
OtherPayload ==
    MkPayload(Obj(<<>>), JsNull, Obj([invoice_number |-> Str("INV-2")]), JsNull)

\* What fetchInvoiceResultDetails(id) resolves with
payloadOf(id) == IF id = Str("result-1") THEN backendPayload ELSE OtherPayload

InitialViewState == [validationData |-> JsNull, isLoading |-> TRUE, error |-> JsNull]

AllOpen ==
    [invoiceData |-> TRUE, poData |-> TRUE, invoiceLineItems |-> TRUE, poLineItems |-> TRUE]

SectionNames == {"invoiceData", "poData", "invoiceLineItems", "poLineItems"}

NotRendered == [data |-> JsNull, open |-> AllOpen, out |-> <<>>]

\* The detail modal has just been opened: the view is mounted, its effect has not run yet.
ViewInit ==
    /\ rendered = NotRendered
    /\ view = InitialViewState
    /\ viewPc = "mounted"
    /\ openSections = AllOpen
    /\ inFlight = {}
    /\ viewLog = [received |-> 1, issued |-> 0, toggles |-> 0]

\* loadDetails that does not test invoiceResultId before it fetches
loadDetailsStart_NoIdTest ==
    /\ viewPc = "mounted"
    /\ view' = [view EXCEPT !.isLoading = TRUE, !.error = JsNull]
    /\ viewPc' = "fetching"
    /\ inFlight' = inFlight \cup {invoiceResultId}
    /\ viewLog' = [viewLog EXCEPT !.issued = @ + 1]
    /\ UNCHANGED <<invoiceResultId, backendPayload, openSections, rendered, chatVars, clientVars>>

\* loadDetails up to its await
loadDetailsStart ==
    /\ viewPc = "mounted"
    /\ IF ~Truthy(invoiceResultId)
       THEN /\ view' = [view EXCEPT !.error = Str(NoIdError), !.isLoading = FALSE]
            /\ viewPc' = IF inFlight = {} THEN "done" ELSE "fetching"
            /\ UNCHANGED <<inFlight, viewLog>>
       ELSE /\ view' = [view EXCEPT !.isLoading = TRUE, !.error = JsNull]
            /\ viewPc' = "fetching"
            /\ inFlight' = inFlight \cup {invoiceResultId}
            /\ viewLog' = [viewLog EXCEPT !.issued = @ + 1]
    /\ UNCHANGED <<invoiceResultId, backendPayload, openSections, rendered, chatVars, clientVars>>

\* fetchInvoiceResultDetails resolved
loadDetailsResolve ==
    /\ viewPc \in {"mounted", "fetching"}
    /\ \E id \in inFlight :
        /\ view' = [view EXCEPT !.validationData = payloadOf(id), !.isLoading = FALSE]
        /\ inFlight' = inFlight \ {id}
        /\ viewPc' = IF viewPc = "fetching" /\ inFlight = {id} THEN "done" ELSE viewPc
    /\ UNCHANGED <<invoiceResultId, backendPayload, openSections, viewLog, rendered, chatVars, clientVars>>

\* loadDetails that fetches again when the fetch has failed
loadDetailsReject_Refetch ==
    /\ viewPc \in {"mounted", "fetching"}
    /\ viewLog.issued < 1 + MaxDetailOpens
    /\ \E id \in inFlight :
        /\ view' = [view EXCEPT !.isLoading = TRUE]
        /\ viewLog' = [viewLog EXCEPT !.issued = @ + 1]
    /\ UNCHANGED <<invoiceResultId, backendPayload, viewPc, inFlight, openSections, rendered,
                   chatVars, clientVars>>

\* fetchInvoiceResultDetails rejected
loadDetailsReject ==
    /\ viewPc \in {"mounted", "fetching"}
    /\ \E id \in inFlight :
        /\ view' = [view EXCEPT !.error = Str(FetchError), !.isLoading = FALSE]
        /\ inFlight' = inFlight \ {id}
        /\ viewPc' = IF viewPc = "fetching" /\ inFlight = {id} THEN "done" ELSE viewPc
    /\ UNCHANGED <<invoiceResultId, backendPayload, openSections, viewLog, rendered, chatVars, clientVars>>

\* The report is on screen: none of the three early returns of the component is taken.
ReportShown == ~view.isLoading /\ ~Truthy(view.error) /\ Truthy(view.validationData)

\* The screen the component returns
screen ==
    IF viewPc = "unmounted" THEN "none"
    ELSE IF view.isLoading THEN "loading"
    ELSE IF Truthy(view.error) THEN "error"
    ELSE IF ~Truthy(view.validationData) THEN "no data"
    ELSE "report"

\* The header button of a section is rendered (part_001)
hasToggle(sectionName) ==
    LET data == view.validationData
        nonEmpty(doc) == Truthy(OptGet(doc, "items")) /\ Len(OptGet(doc, "items").a) > 0
    IN  CASE sectionName = "invoiceData" -> TRUE
          [] sectionName = "invoiceLineItems" -> nonEmpty(Get(data, "extracted_invoice_data"))
          [] sectionName = "poData" -> Truthy(Get(data, "extracted_po_data"))
          [] OTHER -> /\ Truthy(Get(data, "extracted_po_data"))
                      /\ nonEmpty(Get(data, "extracted_po_data"))

\* renderAll whose output depends on how often a section was toggled
renderAll_Counting(data, open) ==
    [build \in Builds |->
        [report(build, data, open) EXCEPT !.noPoMarker = viewLog.toggles > 0]]

\* What the component returns in the two builds
renderAll(data, open) == [build \in Builds |-> report(build, data, open)]

\* The component function runs with the report on screen: it returns the report and
\* assigns to nothing.
render ==
    /\ screen = "report"
    /\ rendered' = [ data |-> view.validationData,
                     open |-> openSections,
                     out  |-> renderAll(view.validationData, openSections) ]
    /\ UNCHANGED <<invoiceResultId, backendPayload, view, viewPc, openSections, inFlight,
                   viewLog, chatVars, clientVars>>

\* part_001: the header button of a section is pressed.  The buttons are those of the
\* report that was rendered last; a report whose rendering raised has none.
toggleSection ==
    /\ ReportShown
    /\ viewLog.toggles < MaxToggles
    /\ rendered.data = view.validationData
    /\ ~rendered.out["part_001"].aborted
    /\ \E sectionName \in SectionNames :
        /\ hasToggle(sectionName)
        /\ openSections' = [openSections EXCEPT ![sectionName] = ~@]
    /\ viewLog' = [viewLog EXCEPT !.toggles = @ + 1]
    /\ UNCHANGED <<invoiceResultId, backendPayload, view, viewPc, inFlight, rendered, chatVars, clientVars>>

\* ChatWindow: a 'View Details' button is pressed.  With the modal closed the view is
\* mounted; with the modal open the view receives a new invoiceResultId.
handleOpenDetailsModal ==
    /\ viewLog.received < 1 + MaxDetailOpens
    /\ viewPc # "mounted"
    /\ \E id \in ResultIds :
        /\ id # invoiceResultId
        /\ invoiceResultId' = id
        /\ viewPc' = "mounted"
        /\ viewLog' = [viewLog EXCEPT !.received = @ + 1]
        /\ IF viewPc = "unmounted"
           THEN view' = InitialViewState /\ openSections' = AllOpen /\ inFlight' = {}
           ELSE UNCHANGED <<view, openSections, inFlight>>
    /\ UNCHANGED <<backendPayload, rendered, chatVars, clientVars>>

\* The view is taken off the screen: its state is gone and no response reaches it.
Unmount ==
    /\ invoiceResultId' = JsNull
    /\ view' = InitialViewState
    /\ viewPc' = "unmounted"
    /\ openSections' = AllOpen
    /\ inFlight' = {}
    /\ rendered' = NotRendered
    /\ UNCHANGED <<backendPayload, viewLog, chatVars, clientVars>>

\* ChatWindow: the close button of the detail modal
handleCloseDetailsModal ==
    /\ viewPc # "unmounted"
    /\ Unmount

\* The 'Retry' button of the error screen: window.location.reload()
retry ==
    /\ screen = "error"
    /\ Unmount

(***************************************************************************)
(* Session store (mockSessions and its functions) behind the API           *)
(* switchboard                                                             *)
(***************************************************************************)
MaxNewSessions == 1

MaxOps == 2

MaxPersists == 2

MaxFailures == 1

\* about: the session the message was produced for (0 for the fixed greetings)
Msg(role, type, about) == [role |-> role, type |-> type, about |-> about]

\* A Date object of the store, and the string JSON.stringify turns it into
Date(ms) == [t |-> "date", ms |-> ms]

toISOString(date) == [t |-> "string", ms |-> date.ms]

\* the title of the predefined session, and the default of createMockSession
titleOf(id) == IF id = 1 THEN "Invoice #INV-2023-001 (Accepted)" ELSE "New Chat"

\* invoice_result_id 0 stands for null, id 0 for no session; a session is created
\* at the instant its id is made of
Session(id, rid, msgs) ==
    [id |-> id, title |-> titleOf(id), created_at |-> Date(id),
     invoice_result_id |-> rid, messages |-> msgs]

NoSession == Session(0, 0, <<>>)

initialWelcomeMessages ==
    <<Msg("assistant", "initial_welcome", 0), Msg("assistant", "prompt_upload_invoice", 0)>>

noSessionMessages ==
    <<Msg("assistant", "initial_welcome", 0), Msg("assistant", "prompt_to_start", 0)>>

\* One of the predefined sessions of mockSessions: it has a result already.
PredefinedSession ==
    Session(1, 1, initialWelcomeMessages
                  \o <<Msg("user", "file_upload", 1), Msg("assistant", "validation_result", 1)>>)

RemoveAt(seq, i) == SubSeq(seq, 1, i - 1) \o SubSeq(seq, i + 1, Len(seq))

\* mockSessions.findIndex(s => s.id === sessionId), 0 when there is none
findIndex(sessions, sessionId) ==
    IF \E i \in DOMAIN sessions : sessions[i].id = sessionId
    THEN CHOOSE i \in DOMAIN sessions : sessions[i].id = sessionId
    ELSE 0

\* push the message, then move the session to the top of the list
addMockMessageToSession(sessions, sessionId, messageData) ==
    LET i == findIndex(sessions, sessionId)
    IN  IF i = 0 THEN sessions
        ELSE <<[sessions[i] EXCEPT !.messages = Append(@, messageData)]>> \o RemoveAt(sessions, i)

\* the synchronous part of uploadMockInvoice: link the new result to the session
uploadMockInvoice(sessions, sessionId, mockResultId) ==
    LET i == findIndex(sessions, sessionId)
    IN  IF i = 0 THEN sessions
        ELSE [sessions EXCEPT ![i].invoice_result_id = mockResultId]

\* createMockSession puts the two greetings in the new session; a backend behind
\* createSession may create it empty (seeded = FALSE).
createMockSession(sessions, id, seeded) ==
    <<Session(id, 0, IF seeded THEN initialWelcomeMessages ELSE <<>>)>> \o sessions

\* an addMessageToSession that resolves without having stored the message
addMessageToSession_NotStored(sessions, sessionId, messageData, ok) == sessions

\* addMessageToSession through the switchboard: ok = FALSE is a call that rejects
\* without touching the store.
addMessageToSession(sessions, sessionId, messageData, ok) ==
    IF ok THEN addMockMessageToSession(sessions, sessionId, messageData) ELSE sessions

\* uploadInvoice through the switchboard, likewise
uploadInvoice(sessions, sessionId, resultId, ok) ==
    IF ok THEN uploadMockInvoice(sessions, sessionId, resultId) ELSE sessions

\* the id uploadInvoice gives the result of the n-th call
resultIdOf(n) == n + 1

\* JSON.parse(JSON.stringify(sessions)): a copy that shares nothing with the store,
\* in which the dates are strings
jsonCopy(sessions) ==
    [i \in DOMAIN sessions |-> [sessions[i] EXCEPT !.created_at = toISOString(@)]]

\* a fetchMockSessions that resolves with the store's own array
fetchMockSessions_Shared(sessions) ==
    [value |-> sessions, shared |-> TRUE, mutated |-> FALSE]

\* What fetchMockSessions resolves with.  shared: the value is the store's own
\* array; mutated: the client changed it since.
fetchMockSessions(sessions) ==
    [value |-> jsonCopy(sessions), shared |-> FALSE, mutated |-> FALSE]

(***************************************************************************)
(* A client of the store: it calls the five functions in any order, with   *)
(* ids of sessions that exist and one that does not, and it changes the    *)
(* array fetchMockSessions gave it.                                        *)
(***************************************************************************)
MaxStoreCalls == 3

NothingFetched == [value |-> <<>>, shared |-> FALSE, mutated |-> FALSE]

UploadModalInit ==
    [show |-> FALSE, invoiceFile |-> "null", poFile |-> "null", hasPo |-> FALSE, error |-> ""]

ClientInit ==
    /\ fetched = NothingFetched
    /\ storeCalls = 0
    /\ uploadModal = UploadModalInit
    /\ onUploadCalls = <<>>

\* the session ids a client passes: those of the store and one the store lacks
SessionIds == 1 .. Len(mockSessions) + 1

fetchSessions ==
    /\ fetched' = fetchMockSessions(mockSessions)
    /\ UNCHANGED <<storeCalls, uploadModal, onUploadCalls, viewVars, chatVars>>

createSession ==
    /\ storeCalls < MaxStoreCalls
    /\ mockSessions' = createMockSession(mockSessions, Len(mockSessions) + 1, TRUE)
    /\ storeCalls' = storeCalls + 1
    /\ UNCHANGED <<fetched, uploadModal, onUploadCalls, viewVars,
                   app, currentChatSession, chat, ops, started, history>>

\* an unknown id makes addMockMessageToSession throw before it touches the store
addMessage ==
    /\ storeCalls < MaxStoreCalls
    /\ \E sessionId \in SessionIds, type \in {"file_upload", "error"} :
         mockSessions' =
             addMockMessageToSession(mockSessions, sessionId,
                 Msg(IF type = "error" THEN "assistant" ELSE "user", type, sessionId))
    /\ storeCalls' = storeCalls + 1
    /\ UNCHANGED <<fetched, uploadModal, onUploadCalls, viewVars,
                   app, currentChatSession, chat, ops, started, history>>

uploadInvoiceCall ==
    /\ storeCalls < MaxStoreCalls
    /\ \E sessionId \in SessionIds :
         mockSessions' = uploadMockInvoice(mockSessions, sessionId, resultIdOf(storeCalls + 1))
    /\ storeCalls' = storeCalls + 1
    /\ UNCHANGED <<fetched, uploadModal, onUploadCalls, viewVars,
                   app, currentChatSession, chat, ops, started, history>>

\* sendMockChatQuery reads its arguments only
sendChatQuery ==
    /\ storeCalls < MaxStoreCalls
    /\ storeCalls' = storeCalls + 1
    /\ UNCHANGED <<fetched, uploadModal, onUploadCalls, viewVars, chatVars>>

\* The changes a client makes to the array it holds
Mutations == {"retitle", "redate", "clear messages", "drop session"}

mutate(sessions, kind) ==
    IF sessions = <<>> THEN sessions
    ELSE CASE kind = "retitle"        -> [sessions EXCEPT ![1].title = "edited"]
           [] kind = "redate"         -> [sessions EXCEPT ![1].created_at = toISOString(Date(0))]
           [] kind = "clear messages" -> [sessions EXCEPT ![1].messages = <<>>]
           [] kind = "drop session"   -> Tail(sessions)

\* The client writes to what it fetched; the store changes with it when the two
\* are one array.
clientMutates ==
    /\ fetched.value # <<>>
    /\ \E kind \in Mutations :
         /\ fetched' = [fetched EXCEPT !.value = mutate(@, kind), !.mutated = TRUE]
         /\ mockSessions' = IF fetched.shared THEN mutate(mockSessions, kind) ELSE mockSessions
    /\ UNCHANGED <<storeCalls, uploadModal, onUploadCalls, viewVars,
                   app, currentChatSession, chat, ops, started, history>>

(***************************************************************************)
(* UploadModal.  A file is its name; e.target.files[0] is "undefined" when  *)
(* the file dialog left the input empty.                                   *)
(***************************************************************************)
MaxUploads == 2

Files == {"a.pdf", "b.pdf"}

\* what e.target.files[0] can be
Picked == Files \cup {"undefined"}

\* !file
noFile(file) == file \in {"null", "undefined"}

\* ChatWindow's paperclip button: setShowUploadModal(true)
showModal ==
    /\ ~uploadModal.show
    /\ uploadModal' = [uploadModal EXCEPT !.show = TRUE]
    /\ UNCHANGED <<fetched, storeCalls, onUploadCalls, viewVars, chatVars>>

\* onChange of the invoice file input
onInvoiceChange ==
    /\ uploadModal.show
    /\ \E file \in Picked :
         uploadModal' = [uploadModal EXCEPT !.invoiceFile = file, !.error = ""]
    /\ UNCHANGED <<fetched, storeCalls, onUploadCalls, viewVars, chatVars>>

\* a checkbox handler that leaves the PO file where it is
hasPoChanged_KeepsPoFile(m, checked) == [m EXCEPT !.hasPo = checked, !.error = ""]

\* the state the onChange of the checkbox leaves
hasPoChanged(m, checked) ==
    [m EXCEPT !.hasPo = checked,
              !.poFile = IF ~checked THEN "null" ELSE @,
              !.error = ""]

onHasPoChange ==
    /\ uploadModal.show
    /\ uploadModal' = hasPoChanged(uploadModal, ~uploadModal.hasPo)
    /\ UNCHANGED <<fetched, storeCalls, onUploadCalls, viewVars, chatVars>>

\* onChange of the PO file input, which is rendered only while hasPo is checked
onPoChange ==
    /\ uploadModal.show
    /\ uploadModal.hasPo
    /\ \E file \in Picked :
         uploadModal' = [uploadModal EXCEPT !.poFile = file, !.error = ""]
    /\ UNCHANGED <<fetched, storeCalls, onUploadCalls, viewVars, chatVars>>

\* disabled attribute of the 'Upload Documents' button
uploadDisabled ==
    noFile(uploadModal.invoiceFile) \/ (uploadModal.hasPo /\ noFile(uploadModal.poFile))

\* The 'Upload Documents' button.  onUpload is ChatWindow's
\* handleModalUploadAndClose, which closes the modal; onClose closes it too.
handleUploadClick ==
    /\ uploadModal.show
    /\ ~uploadDisabled
    /\ IF noFile(uploadModal.invoiceFile)
       THEN /\ uploadModal' = [uploadModal EXCEPT !.error = "Please select an invoice file."]
            /\ UNCHANGED onUploadCalls
       ELSE IF uploadModal.hasPo /\ noFile(uploadModal.poFile)
       THEN /\ uploadModal' =
                   [uploadModal EXCEPT
                        !.error = "You indicated a PO, but no PO file was selected."]
            /\ UNCHANGED onUploadCalls
       ELSE /\ Len(onUploadCalls) < MaxUploads
            /\ onUploadCalls' =
                   Append(onUploadCalls,
                          [ invoiceFile |-> uploadModal.invoiceFile,
                            poFile      |-> IF uploadModal.hasPo THEN uploadModal.poFile
                                                                ELSE "null",
                            hasPo       |-> uploadModal.hasPo ])
            /\ uploadModal' = [ show |-> FALSE, invoiceFile |-> "null", poFile |-> "null",
                                hasPo |-> FALSE, error |-> "" ]
    /\ UNCHANGED <<fetched, storeCalls, viewVars, chatVars>>

\* the close button of the modal
handleClose ==
    /\ uploadModal.show
    /\ uploadModal' = UploadModalInit
    /\ UNCHANGED <<fetched, storeCalls, onUploadCalls, viewVars, chatVars>>

(***************************************************************************)
(* ChatWindow                                                              *)
(***************************************************************************)
ChatInit ==
    /\ mockSessions = <<PredefinedSession>>
    /\ app = [sessions |-> <<>>, refreshing |-> 1]
    /\ currentChatSession = NoSession
    /\ chat = [ messages |-> noSessionMessages, inputMessage |-> "", isLoading |-> FALSE,
                uploadStep |-> "welcome", currentInvoiceResultId |-> 0,
                showUploadModal |-> FALSE ]
    /\ ops = <<>>
    /\ started = [ops |-> 0, persists |-> 0, sessions |-> 0, failures |-> 0]
    /\ history = [reachedChatting |-> {}, payloadReturned |-> {PredefinedSession.id},
                  fired |-> {}, firedAgain |-> {}]

\* The state the useEffect on currentChatSession leaves, from the state c
sessionEffect(c, session) ==
    IF session.id # 0
    THEN IF session.invoice_result_id # 0
         THEN [c EXCEPT !.inputMessage = "",
                        !.messages = session.messages,
                        !.currentInvoiceResultId = session.invoice_result_id,
                        !.uploadStep = "chatting"]
         ELSE [c EXCEPT !.inputMessage = "",
                        !.messages = initialWelcomeMessages,
                        !.currentInvoiceResultId = 0,
                        !.uploadStep = "awaiting_invoice"]
    ELSE [c EXCEPT !.inputMessage = "",
                   !.messages = noSessionMessages,
                   !.uploadStep = "welcome",
                   !.currentInvoiceResultId = 0]

\* whether the effect calls persistInitialMessages
persistsInitialMessages(session) ==
    /\ session.id # 0
    /\ session.invoice_result_id = 0
    /\ ~\E i \in DOMAIN session.messages : session.messages[i].type = "initial_welcome"

\* Bounds on the handlers a behaviour starts: a second run of
\* persistInitialMessages is followed only in behaviours without uploads and
\* queries.
mayPersist(st) == st.persists < MaxPersists /\ (st.persists > 0 => st.ops = 0)

mayStartHandler == started.ops < MaxOps /\ started.persists < MaxPersists

Op(kind, sid, pc, ok, n, rid) ==
    [kind |-> kind, sid |-> sid, pc |-> pc, ok |-> ok, n |-> n, rid |-> rid]

\* ChatWindow receives a new currentChatSession prop and its effect runs; st is the
\* count of started handlers before it.
ShowSession(session, st) ==
    /\ persistsInitialMessages(session) => mayPersist(st)
    /\ currentChatSession' = session
    /\ chat' = sessionEffect(chat, session)
    /\ IF persistsInitialMessages(session)
       THEN /\ ops' = Append(ops, Op("persist", session.id, "delay", TRUE, 0, 0))
            /\ started' = [st EXCEPT !.persists = @ + 1]
       ELSE /\ ops' = ops
            /\ started' = st

\* A session is displayed and awaits its invoice.
AwaitingInvoice == currentChatSession.id # 0 /\ chat.uploadStep = "awaiting_invoice"

\* The sessions whose uploadInvoice call resolves with a payload in this step
PayloadReceivedNow ==
    { ops[i].sid : i \in { j \in DOMAIN ops :
          /\ ops[j].kind = "upload" /\ ops[j].pc = "calling" /\ ops[j].ok
          /\ \E k \in DOMAIN ops' : /\ ops'[k].n = ops[j].n
                                     /\ ops'[k].kind = "upload"
                                     /\ ops'[k].pc = "persistResult" } }

\* The displayed session goes from 'awaiting_invoice' to 'chatting' in this step.
FiredNow ==
    IF /\ AwaitingInvoice
       /\ currentChatSession'.id = currentChatSession.id
       /\ chat'.uploadStep = "chatting"
    THEN {currentChatSession.id} ELSE {}

\* History, conjoined to every action after chat', currentChatSession' and ops' are
\* set: the sessions displayed with uploadStep = 'chatting', those an upload returned
\* a payload for, those whose awaiting_invoice -> chatting transition fired, and
\* fired a second time.
Track ==
    history' =
        [ reachedChatting |->
              history.reachedChatting \cup
                  (IF chat'.uploadStep = "chatting" /\ currentChatSession'.id # 0
                   THEN {currentChatSession'.id} ELSE {}),
          payloadReturned |-> history.payloadReturned \cup PayloadReceivedNow,
          fired           |-> history.fired \cup FiredNow,
          firedAgain      |-> history.firedAgain \cup (FiredNow \cap history.fired) ]

\* The outcomes a call to the API can have: it resolves (TRUE) or rejects (FALSE)
Outcomes == IF started.failures < MaxFailures THEN BOOLEAN ELSE {TRUE}

Settled(st, ok) == IF ok THEN st ELSE [st EXCEPT !.failures = @ + 1]

withoutLoading(messages) == SelectSeq(messages, LAMBDA m : m.type # "loading_indicator")

\* App: a fetchSessions started by onMessageSentOrUploaded (or at start-up) completes.
\* fetchMockSessions resolves with a deep copy of the store.  replace says whether App
\* hands ChatWindow the refreshed copy of the selected session.
AppFetchSessionsDone ==
    /\ app.refreshing > 0
    /\ \E ok \in Outcomes, replace \in BOOLEAN :
         LET i == findIndex(mockSessions, currentChatSession.id)
         IN  IF ~ok
             THEN /\ app' = [app EXCEPT !.refreshing = @ - 1]
                  /\ started' = Settled(started, ok)
                  /\ UNCHANGED <<currentChatSession, chat, ops>>
             ELSE /\ app' = [sessions |-> jsonCopy(mockSessions),
                              refreshing |-> app.refreshing - 1]
                  /\ IF replace /\ i # 0
                     THEN ShowSession(jsonCopy(mockSessions)[i], started)
                     ELSE UNCHANGED <<currentChatSession, chat, ops, started>>
    /\ UNCHANGED <<mockSessions, viewVars, clientVars>>
    /\ Track

\* App: the user picks a session of the sidebar.
SelectSession ==
    /\ \E i \in DOMAIN app.sessions :
         /\ app.sessions[i] # currentChatSession
         /\ ShowSession(app.sessions[i], started)
    /\ UNCHANGED <<mockSessions, app, viewVars, clientVars>>
    /\ Track

\* App: 'New Chat' creates a session and selects the copy createSession returns.
NewChat ==
    /\ started.sessions < MaxNewSessions
    /\ \E seeded \in BOOLEAN :
         LET id    == Len(mockSessions) + 1
             store == createMockSession(mockSessions, id, seeded)
             newSession == jsonCopy(store)[1]
         IN  /\ mockSessions' = store
             /\ app' = [app EXCEPT !.sessions = <<newSession>> \o @]
             /\ ShowSession(newSession, [started EXCEPT !.sessions = @ + 1])
    /\ UNCHANGED <<viewVars, clientVars>>
    /\ Track

\* The paperclip button: shown for a session that awaits an invoice or chats,
\* disabled while isLoading.
OpenUploadModal ==
    /\ currentChatSession.id # 0
    /\ chat.uploadStep \in {"awaiting_invoice", "chatting"}
    /\ ~chat.isLoading
    /\ ~chat.showUploadModal
    /\ chat' = [chat EXCEPT !.showUploadModal = TRUE]
    /\ UNCHANGED <<mockSessions, app, currentChatSession, ops, started, viewVars, clientVars>>
    /\ Track

\* onClose of UploadModal
CloseUploadModal ==
    /\ chat.showUploadModal
    /\ chat' = [chat EXCEPT !.showUploadModal = FALSE]
    /\ UNCHANGED <<mockSessions, app, currentChatSession, ops, started, viewVars, clientVars>>
    /\ Track

\* onChange of the query input, enabled only when chatting and not loading
TypeMessage ==
    /\ currentChatSession.id # 0
    /\ ~chat.isLoading
    /\ chat.uploadStep \notin {"welcome", "awaiting_invoice"}
    /\ chat.inputMessage = ""
    /\ chat' = [chat EXCEPT !.inputMessage = "query"]
    /\ UNCHANGED <<mockSessions, app, currentChatSession, ops, started, viewVars, clientVars>>
    /\ Track

isSendDisabled ==
    \/ chat.isLoading
    \/ currentChatSession.id = 0
    \/ chat.uploadStep = "welcome"
    \/ chat.uploadStep = "awaiting_invoice"
    \/ chat.uploadStep = "chatting" /\ chat.inputMessage = ""

\* handleModalUploadAndClose up to its first await.  The handler keeps the
\* currentChatSession of the render it was created in (sid).
handleModalUploadAndClose ==
    /\ chat.showUploadModal
    /\ IF currentChatSession.id = 0
       THEN /\ chat' = [chat EXCEPT !.showUploadModal = FALSE]
            /\ UNCHANGED <<mockSessions, ops, started>>
       ELSE LET sid == currentChatSession.id
                userMessageForBackend == Msg("user", "file_upload", sid)
            IN  /\ mayStartHandler
                /\ chat' = [chat EXCEPT !.showUploadModal = FALSE,
                                        !.isLoading = TRUE,
                                        !.messages = Append(@, userMessageForBackend)]
                /\ \E ok \in Outcomes :
                     /\ mockSessions' =
                            addMessageToSession(mockSessions, sid, userMessageForBackend, ok)
                     /\ ops' = Append(ops, Op("upload", sid, "persistUser", ok,
                                              started.ops + 1, chat.currentInvoiceResultId))
                     /\ started' = Settled([started EXCEPT !.ops = @ + 1], ok)
    /\ UNCHANGED <<app, currentChatSession, viewVars, clientVars>>
    /\ Track

\* handleSendMessage up to its first await
handleSendMessage ==
    /\ ~isSendDisabled
    /\ currentChatSession.id # 0 /\ ~chat.isLoading
    /\ chat.uploadStep = "chatting" /\ chat.inputMessage # ""
    /\ mayStartHandler
    /\ LET sid == currentChatSession.id
           userMessageForBackend == Msg("user", "text_message", sid)
       IN  /\ chat' = [chat EXCEPT !.isLoading = TRUE,
                                   !.inputMessage = "",
                                   !.messages = Append(@, userMessageForBackend)]
           /\ \E ok \in Outcomes :
                /\ mockSessions' =
                       addMessageToSession(mockSessions, sid, userMessageForBackend, ok)
                /\ ops' = Append(ops, Op("query", sid, "persistUser", ok,
                                         started.ops + 1, chat.currentInvoiceResultId))
                /\ started' = Settled([started EXCEPT !.ops = @ + 1], ok)
    /\ UNCHANGED <<app, currentChatSession, viewVars, clientVars>>
    /\ Track

\* a catch block that appends the error message and keeps the loading indicator
catchBlock_KeepsLoading(i) ==
    LET op == ops[i]
        errorMsgObj == Msg("assistant", "error", op.sid)
    IN  /\ chat' = [chat EXCEPT !.messages = Append(@, errorMsgObj)]
        /\ \E ok \in Outcomes :
             /\ mockSessions' = addMessageToSession(mockSessions, op.sid, errorMsgObj, ok)
             /\ ops' = [ops EXCEPT ![i] = [op EXCEPT !.pc = "persistError", !.ok = ok]]
             /\ started' = Settled(started, ok)
        /\ UNCHANGED app

\* the catch block of both handlers, up to its await
catchBlock(i) ==
    LET op == ops[i]
        errorMsgObj == Msg("assistant", "error", op.sid)
    IN  /\ chat' = [chat EXCEPT !.messages = Append(withoutLoading(@), errorMsgObj)]
        /\ \E ok \in Outcomes :
             /\ mockSessions' = addMessageToSession(mockSessions, op.sid, errorMsgObj, ok)
             /\ ops' = [ops EXCEPT ![i] = [op EXCEPT !.pc = "persistError", !.ok = ok]]
             /\ started' = Settled(started, ok)
        /\ UNCHANGED app

\* Both handlers: addMessageToSession(userMessageForBackend) settled; on success the
\* loading indicator is appended and uploadInvoice / sendChatQuery is called.
userMessagePersisted ==
    /\ \E i \in DOMAIN ops :
         LET op == ops[i]
         IN  /\ op.kind \in {"upload", "query"}
             /\ op.pc = "persistUser"
             /\ IF op.ok
                THEN /\ chat' = [chat EXCEPT !.messages =
                                    Append(@, Msg("assistant", "loading_indicator", op.sid))]
                     /\ \E ok \in Outcomes :
                          /\ mockSessions' =
                                 IF op.kind = "upload"
                                 THEN uploadInvoice(mockSessions, op.sid, resultIdOf(op.n), ok)
                                 ELSE mockSessions
                          /\ ops' = [ops EXCEPT ![i] = [op EXCEPT !.pc = "calling", !.ok = ok]]
                          /\ started' = Settled(started, ok)
                     /\ UNCHANGED app
                ELSE catchBlock(i)
    /\ UNCHANGED <<currentChatSession, viewVars, clientVars>>
    /\ Track

\* Both handlers: uploadInvoice / sendChatQuery settled; on success the loading
\* indicator gives way to the final message, which is then persisted.
callSettled ==
    /\ \E i \in DOMAIN ops :
         LET op == ops[i]
             finalAssistantMessage ==
                 Msg("assistant",
                     IF op.kind = "upload" THEN "validation_result" ELSE "text_message",
                     op.sid)
         IN  /\ op.kind \in {"upload", "query"}
             /\ op.pc = "calling"
             /\ IF op.ok
                THEN /\ chat' = [chat EXCEPT !.messages =
                                    Append(withoutLoading(@), finalAssistantMessage)]
                     /\ \E ok \in Outcomes :
                          /\ mockSessions' = addMessageToSession(mockSessions, op.sid,
                                                                 finalAssistantMessage, ok)
                          /\ ops' = [ops EXCEPT ![i] =
                                        [op EXCEPT !.pc = "persistResult", !.ok = ok]]
                          /\ started' = Settled(started, ok)
                     /\ UNCHANGED app
                ELSE catchBlock(i)
    /\ UNCHANGED <<currentChatSession, viewVars, clientVars>>
    /\ Track

\* Both handlers: addMessageToSession(finalAssistantMessage) settled; on success the
\* handler finishes (the upload one sets currentInvoiceResultId and uploadStep).
resultPersisted ==
    /\ \E i \in DOMAIN ops :
         LET op == ops[i]
         IN  /\ op.kind \in {"upload", "query"}
             /\ op.pc = "persistResult"
             /\ IF op.ok
                THEN /\ chat' = IF op.kind = "upload"
                                THEN [chat EXCEPT !.currentInvoiceResultId = resultIdOf(op.n),
                                                  !.uploadStep = "chatting",
                                                  !.isLoading = FALSE]
                                ELSE [chat EXCEPT !.isLoading = FALSE]
                     /\ app' = [app EXCEPT !.refreshing = @ + 1]
                     /\ ops' = RemoveAt(ops, i)
                     /\ UNCHANGED <<mockSessions, started>>
                ELSE catchBlock(i)
    /\ UNCHANGED <<currentChatSession, viewVars, clientVars>>
    /\ Track

\* Both handlers: the addMessageToSession(errorMsgObj) of the catch block settled;
\* finally resets isLoading.
errorPersisted ==
    /\ \E i \in DOMAIN ops :
         LET op == ops[i]
         IN  /\ op.pc = "persistError"
             /\ chat' = [chat EXCEPT !.isLoading = FALSE]
             /\ app' = IF op.ok THEN [app EXCEPT !.refreshing = @ + 1] ELSE app
             /\ ops' = RemoveAt(ops, i)
    /\ UNCHANGED <<mockSessions, currentChatSession, started, viewVars, clientVars>>
    /\ Track

\* persistInitialMessages: after the 100 ms delay the first greeting is sent, after
\* that call resolved the second one; a rejected call ends it.
persistInitialMessages ==
    /\ \E i \in DOMAIN ops :
         LET op == ops[i]
         IN  /\ op.kind = "persist"
             /\ \E ok \in Outcomes :
                  /\ mockSessions' =
                         addMessageToSession(mockSessions, op.sid,
                             initialWelcomeMessages[IF op.pc = "delay" THEN 1 ELSE 2], ok)
                  /\ ops' = IF op.pc = "first" \/ ~ok
                            THEN RemoveAt(ops, i)
                            ELSE [ops EXCEPT ![i] = [op EXCEPT !.pc = "first"]]
                  /\ started' = Settled(started, ok)
    /\ UNCHANGED <<app, currentChatSession, chat, viewVars, clientVars>>
    /\ Track

Init ==
    /\ ViewInit
    /\ ChatInit
    /\ ClientInit
    /\ \/ invoiceResultId = JsNull /\ backendPayload = JsNull
       \/ invoiceResultId = Str("result-1") /\ (\/ FieldPayloadStored
                                                  \/ ItemPayloadStored
                                                  \/ SummaryPayloadStored
                                                  \/ MalformedPayloadStored)

ChatNext ==
    \/ AppFetchSessionsDone
    \/ SelectSession
    \/ NewChat
    \/ OpenUploadModal
    \/ CloseUploadModal
    \/ TypeMessage
    \/ handleModalUploadAndClose
    \/ handleSendMessage
    \/ userMessagePersisted
    \/ callSettled
    \/ resultPersisted
    \/ errorPersisted
    \/ persistInitialMessages

Next == loadDetailsStart \/ loadDetailsResolve \/ loadDetailsReject

Spec == Init /\ [][Next]_vars

\* The life of the view in the detail modal
InitView ==
    /\ ViewInit
    /\ ChatInit
    /\ ClientInit
    /\ invoiceResultId \in {JsNull, Str("result-1")}
    /\ backendPayload \in ViewPayloads \cup MalformedPayloads

ViewNext ==
    \/ loadDetailsStart
    \/ loadDetailsResolve
    \/ loadDetailsReject
    \/ toggleSection
    \/ render
    \/ handleOpenDetailsModal
    \/ handleCloseDetailsModal
    \/ retry

SpecView == InitView /\ [][ViewNext]_vars

\* ChatWindow on its own: the detail modal is closed, no view is mounted with an id.
InitChat ==
    /\ ViewInit
    /\ ChatInit
    /\ ClientInit
    /\ invoiceResultId = JsNull
    /\ backendPayload = JsNull

SpecChat == InitChat /\ [][ChatNext]_vars

\* ChatWindow when every call to the API settles: a handler that awaits a call is
\* resumed.
SpecChatFair ==
    /\ SpecChat
    /\ WF_vars(userMessagePersisted)
    /\ WF_vars(callSettled)
    /\ WF_vars(resultPersisted)
    /\ WF_vars(errorPersisted)

\* The store and a client of its functions
StoreNext ==
    \/ fetchSessions
    \/ createSession
    \/ addMessage
    \/ uploadInvoiceCall
    \/ sendChatQuery
    \/ clientMutates

SpecStore == InitChat /\ [][StoreNext]_vars

\* UploadModal on its own
ModalNext ==
    \/ showModal
    \/ onInvoiceChange
    \/ onHasPoChange
    \/ onPoChange
    \/ handleUploadClick
    \/ handleClose

SpecModal == InitChat /\ [][ModalNext]_vars

(***************************************************************************)
(* What the payload on screen says, read directly from the payload.        *)
(***************************************************************************)
Data == view.validationData

InvoiceDoc == Get(Data, "extracted_invoice_data")

PoDoc == Get(Data, "extracted_po_data")

InvoiceIssues == Get(Data, "invoice_validation_issues")

PoComparison == Get(Data, "po_comparison_results")

\* The paths a list of po_comparison_results names.
Listed(list) ==
    LET arr == OptGet(PoComparison, list)
    IN  IF arr.t = "array" THEN {arr.a[i].s : i \in 1..Len(arr.a)} ELSE {}

HasEntry(map, path) == map.t = "object" /\ path \in DOMAIN map.f

MismatchedFields == OptGet(PoComparison, "mismatched_fields")

InvoiceRowIndex == 1..Len(invoiceFieldsToDisplay)

PoRowIndex(build) == DOMAIN poFieldRows(build, Data)

\* C1: every field path with an entry in the issues map given to getFieldStatus is
\* reported invalid with exactly that entry's message, whatever po_comparison_results holds.
C1_IssueEntryWins ==
    ReportShown =>
        \A build \in Builds :
            /\ \A i \in InvoiceRowIndex :
                 LET row == invoiceFieldRows(build, Data)[i]
                 IN  HasEntry(InvoiceIssues, row.key) =>
                        /\ ~row.isValid
                        /\ row.message = InvoiceIssues.f[row.key].s
            /\ \A i \in PoRowIndex(build) :
                 LET row == poFieldRows(build, Data)[i]
                     map == poIssuesFor(row.key, PoComparison)
                 IN  HasEntry(map, row.key) =>
                        /\ ~row.isValid
                        /\ row.message = map.f[row.key].s

\* C2: an invoice row whose path has no issue entry is invalid with the missing-in-invoice
\* reason when the path is listed in missing_in_invoice, and valid when it is not listed.
C2_MissingInInvoice ==
    ReportShown =>
        \A build \in Builds : \A i \in InvoiceRowIndex :
            LET row == invoiceFieldRows(build, Data)[i]
            IN  ~HasEntry(InvoiceIssues, row.key) =>
                   IF row.key \in Listed("missing_in_invoice")
                   THEN ~row.isValid /\ row.message = MissingInInvoiceMessage
                   ELSE row.isValid

C2_Witness ==
    /\ ReportShown
    /\ \E i, j \in InvoiceRowIndex :
         LET ri == invoiceFieldRows("part_001", Data)[i]
             rj == invoiceFieldRows("part_001", Data)[j]
         IN  /\ ~HasEntry(InvoiceIssues, ri.key) /\ ri.key \in Listed("missing_in_invoice")
             /\ ~ri.isValid
             /\ ~HasEntry(InvoiceIssues, rj.key) /\ rj.key \notin Listed("missing_in_invoice")
             /\ rj.isValid

\* C3: a PO-side row whose path is not listed in missing_in_po is valid, also when the
\* path is listed in missing_in_invoice.
C3_PoRowIgnoresMissingInInvoice ==
    ReportShown =>
        \A build \in Builds : \A i \in PoRowIndex(build) :
            LET row == poFieldRows(build, Data)[i]
            IN  row.key \notin Listed("missing_in_po") => row.isValid

\* C4: for a path listed in missing_in_po, with no issue entry and not listed in
\* missing_in_invoice, the invoice row is valid and the PO row is invalid with 'Missing in PO.'.
C4_MissingInPo ==
    ReportShown =>
        \A build \in Builds : \A p \in Listed("missing_in_po") :
            (~HasEntry(InvoiceIssues, p) /\ p \notin Listed("missing_in_invoice")) =>
                /\ \A i \in InvoiceRowIndex :
                     LET row == invoiceFieldRows(build, Data)[i]
                     IN  row.key = p => row.isValid
                /\ \A i \in PoRowIndex(build) :
                     LET row == poFieldRows(build, Data)[i]
                     IN  row.key = p => ~row.isValid /\ row.message = MissingInPoMessage

C4_Witness ==
    /\ ReportShown
    /\ \E p \in Listed("missing_in_po") :
         /\ ~HasEntry(InvoiceIssues, p) /\ p \notin Listed("missing_in_invoice")
         /\ \E i \in InvoiceRowIndex :
              invoiceFieldRows("part_001", Data)[i].key = p
              /\ invoiceFieldRows("part_001", Data)[i].isValid
         /\ \E i \in PoRowIndex("part_001") :
              poFieldRows("part_001", Data)[i].key = p
              /\ ~poFieldRows("part_001", Data)[i].isValid

\* The payload on screen with mismatched_fields emptied.
WithoutMismatches ==
    IF PoComparison.t = "object"
    THEN Obj([k \in DOMAIN PoComparison.f |->
                IF k = "mismatched_fields" THEN Obj(<<>>) ELSE PoComparison.f[k]])
    ELSE PoComparison

\* C5: an invoice row carries the annotation {invoice_value, po_value} exactly when
\* mismatched_fields has an entry for its path, its status is the one it has without the
\* mismatch, and a PO row never carries the annotation.
C5_MismatchAnnotation ==
    ReportShown =>
        \A build \in Builds :
            /\ \A i \in InvoiceRowIndex :
                 LET row  == invoiceFieldRows(build, Data)[i]
                     bare == renderField(build, row.key, InvoiceDoc, InvoiceIssues,
                                         row.label, FALSE, WithoutMismatches)
                 IN  /\ (row.poMismatch # JsNull) <=> HasEntry(MismatchedFields, row.key)
                     /\ HasEntry(MismatchedFields, row.key) =>
                            row.poMismatch = MismatchedFields.f[row.key]
                     /\ row.isValid = bare.isValid
                     /\ row.message = bare.message
            /\ \A i \in PoRowIndex(build) :
                 poFieldRows(build, Data)[i].poMismatch = JsNull

C5_Witness ==
    /\ ReportShown
    /\ PoRowIndex("api.js") # {}
    /\ \E i \in InvoiceRowIndex :
         LET row == invoiceFieldRows("api.js", Data)[i]
         IN  /\ row.poMismatch = MismatchPair
             /\ ~row.isValid
    /\ \E i \in PoRowIndex("api.js") :
         HasEntry(MismatchedFields, poFieldRows("api.js", Data)[i].key)

\* resolve as section 4.1 and 8 describe it: absent as soon as a prefix of the path is
\* not a mapping, else the leaf.
RECURSIVE walkMappings(_, _, _)
walkMappings(d, parts, i) ==
    IF i > Len(parts) THEN d
    ELSE IF d.t # "object" THEN JsUndefined
         ELSE walkMappings(Get(d, parts[i]), parts, i + 1)

AbsentByContract(d, path) == Nullish(walkMappings(d, split(path), 1))

\* C7: getNestedValue returns 'absent' (null or undefined) if and only if some prefix of
\* the path is not a mapping in the document or the leaf itself is absent.
C7_ResolverAbsence ==
    ReportShown =>
        \A d \in {InvoiceDoc, PoDoc} : \A p \in UniverseSet :
            Nullish(getNestedValue(d, p)) <=> AbsentByContract(d, p)

\* C8: a value that is absent and a value that is the empty string are both displayed
\* as the placeholder.
C8_AbsentAndEmptyAlike ==
    ReportShown =>
        \A build \in Builds :
            /\ \A i \in InvoiceRowIndex :
                 LET row == invoiceFieldRows(build, Data)[i]
                 IN  (row.value = JsUndefined \/ row.value = Str("")) =>
                        row.cell = [kind |-> "placeholder", text |-> Placeholder(build)]
            /\ \A i \in PoRowIndex(build) :
                 LET row == poFieldRows(build, Data)[i]
                 IN  (row.value = JsUndefined \/ row.value = Str("")) =>
                        row.cell = [kind |-> "placeholder", text |-> Placeholder(build)]

\* The entries of line_item_details of the payload on screen.
LineItemDetailEntries ==
    LET details == OptGet(MismatchedFields, "line_item_details")
    IN  IF details.t = "array" THEN {details.a[i] : i \in 1..Len(details.a)} ELSE {}

ValueMismatchEntries == {e \in LineItemDetailEntries : Get(e, "type") = Str("item_value_mismatch")}

\* The item_index of an entry, as a number
ItemIndex(e) == CHOOSE i \in 0..4 : Get(e, "item_index") = Num(NumStr(i))

FlaggedKeys(row) == {row.cells[k].key : k \in {x \in DOMAIN row.cells : row.cells[x].flagged}}

\* C6: for an item_value_mismatch entry with item_index i, invoice row i is flagged and
\* shows every key of the entry's mismatches flagged, and a row is flagged only from the
\* entry of its own index.
C6_LineItemAlignment ==
    ReportShown =>
        \A build \in Builds :
            LET rows == invoiceLineItemRows(build, Data)
            IN  /\ \A e \in ValueMismatchEntries :
                     (ItemIndex(e) + 1) \in DOMAIN rows =>
                        /\ ~rows[ItemIndex(e) + 1].itemOverallValid
                        /\ DOMAIN Get(e, "mismatches").f \subseteq FlaggedKeys(rows[ItemIndex(e) + 1])
                /\ \A j \in DOMAIN rows :
                     /\ ~rows[j].itemOverallValid =>
                            \E e \in ValueMismatchEntries : ItemIndex(e) = j - 1
                     /\ \A key \in FlaggedKeys(rows[j]) :
                            \E e \in ValueMismatchEntries :
                                ItemIndex(e) = j - 1 /\ key \in DOMAIN Get(e, "mismatches").f


(***************************************************************************)
(* The upload state machine of ChatWindow                                  *)
(***************************************************************************)
\* C9: a session that was once displayed with uploadStep 'chatting' is never again
\* displayed with uploadStep 'awaiting_invoice', whatever the user does and whatever
\* completes (uploads, queries, refreshes, switching sessions and back).
C9_NoReturnToAwaitingInvoice ==
    AwaitingInvoice => currentChatSession.id \notin history.reachedChatting

\* The upload handlers that hold the payload of the displayed session, which awaits
\* its invoice, and take their next step now
HandlersWithPayloadStepping ==
    { i \in DOMAIN ops :
        /\ ops[i].kind = "upload"
        /\ ops[i].pc = "persistResult"
        /\ ops[i].sid = currentChatSession.id
        /\ ~\E k \in DOMAIN ops' : ops'[k] = ops[i] }

\* The upload handlers whose upload fails in this step
UploadsFailingNow ==
    { i \in DOMAIN ops :
        /\ ops[i].kind = "upload"
        /\ ops[i].pc = "calling"
        /\ ~ops[i].ok
        /\ ~\E k \in DOMAIN ops' : ops'[k] = ops[i] }

C10_Step ==
    /\ FiredNow # {} => /\ currentChatSession.id \in history'.payloadReturned
                        /\ currentChatSession.id \notin history.fired
    /\ (AwaitingInvoice /\ currentChatSession' = currentChatSession
                        /\ HandlersWithPayloadStepping # {})
           => chat'.uploadStep = "chatting"
    /\ UploadsFailingNow # {} => /\ chat'.uploadStep = chat.uploadStep
                                 /\ chat'.currentInvoiceResultId = chat.currentInvoiceResultId

\* C10: for a displayed session that awaits its invoice, the step to 'chatting' is
\* taken at most once, only for a session an upload has returned a payload for, and
\* always by the handler that holds that payload; the step in which an upload fails
\* changes neither uploadStep nor currentInvoiceResultId.
C10_TransitionOnPayloadOnly == [][C10_Step]_vars


\* The upload and chat-query handlers in flight
OperationsInFlight == { i \in DOMAIN ops : ops[i].kind \in {"upload", "query"} }

\* C11: at most one upload or chat-query handler is between its start and its
\* completion, so no two of them append to the message list of the same session.
C11_SingleOperationInFlight ==
    \A i, j \in OperationsInFlight : ops[i].sid = ops[j].sid => i = j


HasType(messages, type) == \E k \in DOMAIN messages : messages[k].type = type

\* The upload handlers whose failure is caught in this step
UploadFailuresCaught ==
    { i \in DOMAIN ops :
        /\ ops[i].kind = "upload"
        /\ ops[i].pc # "persistError"
        /\ \E k \in DOMAIN ops' : /\ ops'[k].n = ops[i].n
                                  /\ ops'[k].kind = "upload"
                                  /\ ops'[k].pc = "persistError" }

\* The failed upload handlers that finish in this step
FailedUploadsFinishing ==
    { i \in DOMAIN ops :
        /\ ops[i].kind = "upload"
        /\ ops[i].pc = "persistError"
        /\ ~\E k \in DOMAIN ops' : ops'[k] = ops[i] }

ItemCount(doc) ==
    LET items == OptGet(doc, "items")
    IN  IF Truthy(items) THEN Len(items.a) ELSE 0

C13_RenderNeverAborts ==
    ReportShown =>
        \A build \in Builds :
            /\ ~report(build, Data, AllOpen).aborted
            /\ Len(report(build, Data, AllOpen).invoiceFields) = Len(invoiceFieldsToDisplay)
            /\ Len(report(build, Data, AllOpen).invoiceLineItems) = ItemCount(InvoiceDoc)

(***************************************************************************)
(* C14: when line_item_details holds a count_mismatch entry and nothing    *)
(* else, the discrepancy summary has exactly one line-item notice, which   *)
(* carries the message of that entry as it is, and no invoice or PO        *)
(* line-item row is flagged: every row is overall valid and none of its    *)
(* cells is marked as mismatched.                                          *)
(***************************************************************************)
LineItemDetailsList == Get(Get(PoComparison, "mismatched_fields"), "line_item_details")

OnlyCountMismatch ==
    /\ LineItemDetailsList.t = "array"
    /\ Len(LineItemDetailsList.a) = 1
    /\ Get(LineItemDetailsList.a[1], "type") = Str("count_mismatch")

Unflagged(rows) ==
    \A i \in DOMAIN rows :
        /\ ~rows[i].threw
        /\ rows[i].itemOverallValid
        /\ \A k \in DOMAIN rows[i].cells : ~rows[i].cells[k].flagged

C14_CountMismatchOnly ==
    ReportShown /\ OnlyCountMismatch =>
        LET notices == discrepancySummary(PoComparison).lineItemNotices
        IN  /\ Len(notices) = 1
            /\ ~notices[1].threw
            /\ notices[1].kind = "count_mismatch"
            /\ notices[1].text = Get(LineItemDetailsList.a[1], "message").s
            /\ notices[1].subs = {}
            /\ \A build \in Builds :
                /\ Unflagged(invoiceLineItemRows(build, Data))
                /\ Unflagged(poLineItemRows(build, Data))

C14_Witness ==
    /\ ReportShown
    /\ OnlyCountMismatch
    /\ Len(invoiceLineItemRows("part_001", Data)) = 2
    /\ Len(poLineItemRows("part_001", Data)) >= 1

(***************************************************************************)
(* C15: every key of mismatched_fields other than line_item_details whose  *)
(* value is a pair has exactly one entry in the discrepancy summary; its   *)
(* label is the key with the underscores replaced by spaces and the first  *)
(* letter of each word in upper case, and it shows invoice_value and       *)
(* po_value as JSON text.                                                  *)
(***************************************************************************)
ExpectedLabel(key) ==
    CASE key = "total_value_of_supply" ->
             <<"T", "o", "t", "a", "l", " ", "V", "a", "l", "u", "e", " ", "O", "f", " ",
               "S", "u", "p", "p", "l", "y">>
      [] key = "invoice_number" ->
             <<"I", "n", "v", "o", "i", "c", "e", " ", "N", "u", "m", "b", "e", "r">>
      [] key = "po_number" ->
             <<"P", "o", " ", "N", "u", "m", "b", "e", "r">>
      [] key = "supplier_details.name" ->
             <<"S", "u", "p", "p", "l", "i", "e", "r", " ", "D", "e", "t", "a", "i", "l", "s",
               ".", "N", "a", "m", "e">>
      [] OTHER -> <<>>

\* The text of a value as it stands in the payload
Literal(v) ==
    CASE v.t = "number" -> v.s
      [] v.t = "string" -> "\"" \o v.s \o "\""
      [] v.t = "null"   -> "null"
      [] OTHER          -> ""

FieldPairs ==
    LET mf == OptGet(PoComparison, "mismatched_fields")
    IN  IF mf.t # "object" THEN {}
        ELSE {k \in DOMAIN mf.f : k # "line_item_details" /\ mf.f[k].t = "object"}

C15_FieldMismatchEntries ==
    ReportShown =>
        \A k \in FieldPairs :
            LET pair    == Get(Get(PoComparison, "mismatched_fields"), k)
                summary == discrepancySummary(PoComparison)
                entries == {n \in summary.fieldNotices : n.field = k}
            IN  /\ summary.shown
                /\ Cardinality(entries) = 1
                /\ \A n \in entries :
                    /\ ~n.threw
                    /\ n.label = ExpectedLabel(k)
                    /\ n.label # <<>>
                    /\ n.invoice = Literal(Get(pair, "invoice_value"))
                    /\ n.po = Literal(Get(pair, "po_value"))

C15_Witness ==
    /\ ReportShown
    /\ "total_value_of_supply" \in FieldPairs
    /\ Get(Get(Get(PoComparison, "mismatched_fields"), "total_value_of_supply"), "invoice_value")
           = Num("1500")
    /\ Get(Get(Get(PoComparison, "mismatched_fields"), "total_value_of_supply"), "po_value")
           = Num("1200")
    /\ \E n \in discrepancySummary(PoComparison).fieldNotices :
           n.invoice = "1500" /\ n.po = "1200"

(***************************************************************************)
(* C16: for a payload without extracted_po_data whose                      *)
(* po_comparison_results names no mismatched field and no missing path,    *)
(* the PO part of the report has no PO field row and no PO line-item row,  *)
(* only the 'No Purchase Order data available' marker, and the discrepancy *)
(* summary is not shown and has no notice.                                 *)
(***************************************************************************)
NoneListed(list) ==
    LET arr == OptGet(PoComparison, list)
    IN  Nullish(arr) \/ (arr.t = "array" /\ Len(arr.a) = 0)

NoPoDiscrepancies ==
    LET mf == OptGet(PoComparison, "mismatched_fields")
    IN  /\ Nullish(mf) \/ (mf.t = "object" /\ DOMAIN mf.f = {})
        /\ NoneListed("missing_in_invoice")
        /\ NoneListed("missing_in_po")

C16_NoPoPayload ==
    ReportShown /\ ~Truthy(PoDoc) /\ NoPoDiscrepancies =>
        /\ \A build \in Builds, open \in [SectionNames -> BOOLEAN] :
            /\ poSection(build, Data, open).marker
            /\ poSection(build, Data, open).fields = <<>>
            /\ poSection(build, Data, open).lineItems = <<>>
            /\ ~poSection(build, Data, open).noItems
        /\ LET summary == discrepancySummary(PoComparison)
           IN  /\ ~summary.shown
               /\ ~summary.threw
               /\ summary.fieldNotices = {}
               /\ summary.lineItemNotices = <<>>
               /\ summary.missingInInvoice = <<>>
               /\ summary.missingInPo = <<>>

C16_Witness ==
    /\ ReportShown
    /\ ~Truthy(PoDoc)
    /\ NoPoDiscrepancies
    /\ PoComparison # JsNull
    /\ report("part_001", Data, AllOpen).noPoMarker

(***************************************************************************)
(* C20: a line-item section whose items list is absent or empty is the     *)
(* 'no line items' notice, and a section whose list is non-empty has       *)
(* exactly one row per item, in the order of the document (row i is made   *)
(* from item i and shows its description), whatever line_item_details      *)
(* holds.  The PO line items belong to the PO part of the report, which    *)
(* exists when there is PO data.                                           *)
(***************************************************************************)
RowsFollowItems(rows, doc) ==
    /\ Len(rows) = ItemCount(doc)
    /\ \A i \in DOMAIN rows :
        /\ ~rows[i].threw
        /\ rows[i].index = i - 1
        /\ \A k \in DOMAIN rows[i].cells :
              rows[i].cells[k].key = "description" /\ ~rows[i].cells[k].flagged
              /\ Get(OptGet(doc, "items").a[i], "description").t = "string"
              /\ Get(OptGet(doc, "items").a[i], "description").s # ""
              => rows[i].cells[k].text = Get(OptGet(doc, "items").a[i], "description").s

C20_OneRowPerItem ==
    ReportShown =>
        \A build \in Builds :
            LET r == report(build, Data, openSections)
            IN  /\ IF ItemCount(InvoiceDoc) = 0
                   THEN r.noInvoiceItems /\ r.invoiceLineItems = <<>>
                   ELSE ~r.noInvoiceItems /\ RowsFollowItems(r.invoiceLineItems, InvoiceDoc)
                /\ Truthy(PoDoc) =>
                      IF ItemCount(PoDoc) = 0
                      THEN r.noPoItems /\ r.poLineItems = <<>>
                      ELSE ~r.noPoItems /\ RowsFollowItems(r.poLineItems, PoDoc)

C19_FetchFailure ==
    /\ [][loadDetailsReject =>
             /\ ~view'.isLoading
             /\ screen' = "error"
             /\ view'.error = Str(FetchError)]_vars
    /\ [][screen = "error" /\ viewPc # "mounted" /\ viewPc' # "unmounted" =>
             screen' = "error"]_vars
    /\ [](screen = "error" => ENABLED retry)
    /\ [](viewLog.issued <= viewLog.received)
    /\ [][viewLog'.issued # viewLog.issued =>
             /\ viewPc = "mounted"
             /\ viewPc' # "mounted"
             /\ viewLog'.issued = viewLog.issued + 1
             /\ viewLog'.received = viewLog.received]_vars

C19_Witness ==
    /\ screen = "error"
    /\ view.error = Str(FetchError)
    /\ viewLog.issued = 2
    /\ inFlight = {}

(***************************************************************************)
(* The store keeps what it was given                                       *)
(***************************************************************************)
isPrefix(a, b) == Len(a) <= Len(b) /\ SubSeq(b, 1, Len(a)) = a

\* The session before lives on in the session after: same id, title and creation
\* date, and the messages it had are the first messages it has, unchanged.
livesOn(before, after) ==
    /\ after.id = before.id
    /\ after.title = before.title
    /\ after.created_at = before.created_at
    /\ isPrefix(before.messages, after.messages)

StoreFrame ==
    /\ \A i \in DOMAIN mockSessions :
         \E j \in DOMAIN mockSessions' : livesOn(mockSessions[i], mockSessions'[j])
    /\ storeCalls' = storeCalls => mockSessions' = mockSessions

\* C21: every call to the store (create session, add message, upload, chat query,
\* fetch sessions) leaves each existing session in the store with its id, title,
\* created_at and its stored messages, in their order, as they were; it may only
\* append a message or set invoice_result_id.  A step that is no such call, a
\* client's write to the value fetchMockSessions resolved with included, leaves the
\* store as it is.
C21_StoreFrame == [][StoreFrame]_vars

\* the client changed the copy it fetched after three calls that linked a result to
\* the predefined session and appended to it, and the store still has that session
C21_Witness ==
    /\ fetched.mutated
    /\ fetched.value # jsonCopy(mockSessions)
    /\ storeCalls = MaxStoreCalls
    /\ \E i \in DOMAIN mockSessions :
         /\ mockSessions[i].id = PredefinedSession.id
         /\ mockSessions[i].invoice_result_id # PredefinedSession.invoice_result_id
         /\ Len(mockSessions[i].messages) > Len(PredefinedSession.messages)

(***************************************************************************)
(* The displayed session and the operations of other sessions              *)
(***************************************************************************)
\* the stored session with the id of the displayed one (NoSession when none)
DisplayedStored ==
    LET i == findIndex(mockSessions, currentChatSession.id)
    IN  IF i = 0 THEN NoSession ELSE mockSessions[i]

\* The result ids linked to a session other than the displayed one.  A result id is
\* made once, for one session, so none of these was produced for the displayed
\* session.
ResultsOfOtherSessions ==
    { mockSessions[i].invoice_result_id :
          i \in { j \in DOMAIN mockSessions :
                      /\ mockSessions[j].id # currentChatSession.id
                      /\ mockSessions[j].invoice_result_id # 0 } }

\* C22: currentInvoiceResultId is null or a result id produced for the displayed
\* session, and uploadStep is 'chatting' only if the displayed session has a
\* result, also when the user changes session while an upload is in flight.
C22_ResultOfDisplayedSession ==
    /\ chat.currentInvoiceResultId \notin ResultsOfOtherSessions
    /\ chat.uploadStep = "chatting" =>
            /\ currentChatSession.id # 0
            /\ DisplayedStored.invoice_result_id # 0

ResultTypes == {"validation_result", "text_message", "error"}

\* C23: a validation_result, text_message or error message that the completion of
\* an operation of session A produced is in the displayed transcript only while A
\* is the displayed session.
C23_ResultsOfDisplayedSessionOnly ==
    \A k \in DOMAIN chat.messages :
        chat.messages[k].type \in ResultTypes =>
            chat.messages[k].about = currentChatSession.id

\* a is b with elements left out
RECURSIVE isSubsequence(_, _)
isSubsequence(a, b) ==
    IF a = <<>> THEN TRUE
    ELSE IF b = <<>> THEN FALSE
    ELSE IF Head(a) = Head(b) THEN isSubsequence(Tail(a), Tail(b))
    ELSE isSubsequence(a, Tail(b))

\* C25: whenever a session is selected, the displayed transcript contains every
\* stored message of the session it is given, in stored order; the file_upload and
\* error messages of a failed upload are shown again when a session without
\* invoice_result_id is selected again.
C25_TranscriptHoldsStoredMessages ==
    [][currentChatSession' # currentChatSession /\ currentChatSession'.id # 0 =>
           isSubsequence(currentChatSession'.messages, chat'.messages)]_vars

\* the upload and query handlers that finish in this step
FinishingNow ==
    { i \in OperationsInFlight :
          /\ ops[i].pc \in {"persistResult", "persistError"}
          /\ \A k \in DOMAIN ops' : ops'[k].n # ops[i].n }

StoredMessages ==
    UNION { { mockSessions[i].messages[k] : k \in DOMAIN mockSessions[i].messages } :
                i \in DOMAIN mockSessions }

\* C27: no message of type 'loading_indicator' is passed to addMessageToSession,
\* so no stored session contains one, and when an upload or a query has finished
\* the displayed transcript contains none.
C27_NoLoadingIndicatorLeft ==
    [][/\ \A m \in StoredMessages' : m.type # "loading_indicator"
       /\ FinishingNow # {} => ~HasType(chat'.messages, "loading_indicator")]_vars

\* C28: isLoading is false only when no upload and no query is in flight.
C28_LoadingWhileInFlight ==
    ~chat.isLoading => OperationsInFlight = {}

\* The other part of C28, under SpecChatFair: the uploads and queries in flight
\* all finish, and the last one to finish leaves isLoading false.
EveryOperationFinishes ==
    (OperationsInFlight # {}) ~> (OperationsInFlight = {} /\ ~chat.isLoading)

(***************************************************************************)
(* The greetings of a new session                                          *)
(***************************************************************************)
CountOfType(messages, type) ==
    Cardinality({ k \in DOMAIN messages : messages[k].type = type })

\* C24: the greetings are persisted at most once per session: whatever the runs of
\* the effect on currentChatSession, a refreshed copy of the session given to
\* ChatWindow before the first persistence has completed included, no stored
\* session holds more than one message of type 'initial_welcome'.
C24_GreetingsPersistedOnce ==
    \A i \in DOMAIN mockSessions :
        CountOfType(mockSessions[i].messages, "initial_welcome") <= 1

(***************************************************************************)
(* The order of the calls of an upload or a query                          *)
(***************************************************************************)
\* the handlers (by number) that are at pc in the sequence os
HandlersAt(os, pc) ==
    { os[i].n : i \in { j \in DOMAIN os : os[j].kind \in {"upload", "query"} /\ os[j].pc = pc } }

handlerOf(n) == ops[CHOOSE i \in DOMAIN ops : ops[i].n = n /\ ops[i].kind \in {"upload", "query"}]

userMessageOf(op) ==
    Msg("user", IF op.kind = "upload" THEN "file_upload" ELSE "text_message", op.sid)

finalMessageOf(op) ==
    Msg("assistant", IF op.kind = "upload" THEN "validation_result" ELSE "text_message", op.sid)

storedMessagesOf(sessions, sessionId) ==
    LET i == findIndex(sessions, sessionId)
    IN  IF i = 0 THEN <<>> ELSE sessions[i].messages

Holds(messages, m) == \E k \in DOMAIN messages : messages[k] = m

\* uploadInvoice / sendChatQuery is called in this step
CalledNow == HandlersAt(ops', "calling") \ HandlersAt(ops, "calling")

\* addMessageToSession(finalAssistantMessage) is called in this step
ResultSentNow == HandlersAt(ops', "persistResult") \ HandlersAt(ops, "persistResult")

\* the handlers whose addMessageToSession(userMessageForBackend) rejected
UserMessageRejected ==
    { n \in HandlersAt(ops, "persistUser") : ~handlerOf(n).ok }

CallOrder ==
    /\ \A n \in CalledNow :
         /\ n \in HandlersAt(ops, "persistUser")
         /\ handlerOf(n).ok
         /\ Holds(storedMessagesOf(mockSessions, handlerOf(n).sid), userMessageOf(handlerOf(n)))
    /\ \A n \in ResultSentNow :
         /\ n \in HandlersAt(ops, "calling")
         /\ handlerOf(n).ok
    /\ \A n \in UserMessageRejected :
         /\ n \notin HandlersAt(ops', "calling") \cup HandlersAt(ops', "persistResult")
         /\ n \in HandlersAt(ops', "persistUser") \cup HandlersAt(ops', "persistError")
    /\ \A i \in DOMAIN mockSessions :
         LET id     == mockSessions[i].id
             before == mockSessions[i].messages
             after  == storedMessagesOf(mockSessions', id)
         IN  \A k \in DOMAIN after :
                 k > Len(before) /\ after[k].role = "assistant" /\ after[k].type \in ResultTypes
                     /\ after[k].type # "error" =>
                     \E n \in ResultSentNow : /\ handlerOf(n).sid = id
                                              /\ after[k] = finalMessageOf(handlerOf(n))

\* C26: in each upload and each query the user's message is persisted before
\* uploadInvoice / sendChatQuery is called, the assistant's result is persisted only
\* after that call has returned, and when persisting the user's message fails the
\* call is not made.
C26_CallOrder == [][CallOrder]_vars

\* an upload's call has returned and its result has been persisted after the
\* user's message
C26_Witness ==
    \E n \in HandlersAt(ops, "persistResult") :
        LET op     == handlerOf(n)
            stored == storedMessagesOf(mockSessions, op.sid)
        IN  /\ op.kind = "upload" /\ op.ok
            /\ Len(stored) >= 2
            /\ stored[Len(stored) - 1] = userMessageOf(op)
            /\ stored[Len(stored)] = finalMessageOf(op)

(***************************************************************************)
(* UploadModal                                                             *)
(***************************************************************************)
\* C29: whatever files were selected, boxes toggled, and however often the modal
\* was closed or submitted, the modal holds a PO file only while hasPo is checked,
\* and each call of onUpload has a selected invoice file and has hasPo = true
\* exactly when the PO file it passes is not null (and then it is a selected file).
C29_PoFileOnlyWithHasPo ==
    /\ uploadModal.poFile \in Files => uploadModal.hasPo
    /\ \A k \in DOMAIN onUploadCalls :
         LET call == onUploadCalls[k]
         IN  /\ call.invoiceFile \in Files
             /\ call.hasPo <=> call.poFile # "null"
             /\ call.poFile \in Files \cup {"null"}

\* one submission went out with a PO and one without, and the modal, opened
\* again, holds a PO file
C29_Witness ==
    /\ Len(onUploadCalls) = MaxUploads
    /\ onUploadCalls[1].hasPo /\ ~onUploadCalls[2].hasPo
    /\ uploadModal.show /\ uploadModal.poFile \in Files

(***************************************************************************)
(* The report and the id it was fetched for                                *)
(***************************************************************************)
\* C30: the validation data on screen is that of the current invoiceResultId: when
\* the view received another id while a fetch was in flight, the late response of
\* the earlier fetch is never what the view shows for the new id.  (Stated for the
\* view whose effect has run for the id it has; between a change of the prop and
\* that run the view still shows what it showed.)
C30_DataOfCurrentId ==
    viewPc \in {"fetching", "done"} /\ screen = "report" =>
        view.validationData = payloadOf(invoiceResultId)
====
